---- MODULE Spec2Model ----
(***************************************************************************)
(* Progol quiniela generator: the slip generator (quiniela_generator.py)   *)
(* and the match source resolver (scraper.py) as state machines.           *)
(*                                                                         *)
(* Conventions.  A Python list is a sequence, a Python dict with fixed     *)
(* keys is a record, a dict built by insertion is a sequence of            *)
(* <<key, value>> pairs in insertion order.  The value NoneValue stands    *)
(* for None, and a record [exc |-> name] for a raised exception.  The      *)
(* names of teams and the display glyphs are written in ASCII.             *)
(* Calls to the random module read a tape of drawn values cyclically: the  *)
(* n-th draw of a call (n = 0, 1, ...) is tape[(n % Len(tape)) + 1].       *)
(***************************************************************************)
EXTENDS Integers, Sequences, FiniteSets, TLC

VARIABLES
    partidos,      \* the match list handed to the generator
    llamada,       \* the last call: its name and arguments
    azar,          \* the tape of values the random module returned to it
    retorno,       \* what the call returned
    sitio,         \* what the lottery site answers to the scraper's fetches
    intentos,      \* the strategies get_partidos ran, in order
    db,            \* the QuinielaDatabase object: database_url, db_available
    servidor,      \* the PostgreSQL server: the table quinielas, its sequence
    abiertas,      \* connections the operations opened and did not close
    sesion,        \* st.session_state of the interactive shell
    scraper        \* the PrognolScraper object: its info_cache

genVars == <<partidos, llamada, azar, retorno>>

scraperVars == <<sitio, intentos, scraper>>

dbVars == <<db, servidor, abiertas>>

vars == <<partidos, llamada, azar, retorno, sitio, intentos, db, servidor,
          abiertas, sesion, scraper>>

NoneValue == [none |-> TRUE]

Min(a, b) == IF a < b THEN a ELSE b

(***************************************************************************)
(* Bounds of the model.                                                    *)
(***************************************************************************)
MaxEntrada == 15       \* longest match list handed to the generator
MaxCantidad == 2       \* largest number of slips asked for
MaxCinta == 3          \* longest tape of random.choice draws
MaxCintaReal == 2      \* longest tape of random.random draws
MaxCapturas == 15      \* most pairs one page element or text line holds
MaxCintaIndice == 2    \* longest tape of draws of the synthetic generator

(***************************************************************************)
(* quiniela_generator.py                                                   *)
(***************************************************************************)

\* self.predicciones: the constant outcome table (glyphs by code point).
predicciones ==
    [Local     |-> [codigo |-> "1", simbolo |-> "U+1F3E0"],
     Empate    |-> [codigo |-> "X", simbolo |-> "U+1F91D"],
     Visitante |-> [codigo |-> "2", simbolo |-> "U+2708 U+FE0F"]]

\* list(self.predicciones.keys()): the keys in insertion order.
ClavesPredicciones == <<"Local", "Empate", "Visitante">>

\* The Progol cap of the slice partidos[:14].
MaxPartidos == 14

\* partidos[:14]
Primeros14(lista) == SubSeq(lista, 1, Min(Len(lista), MaxPartidos))

\* partido.get('fecha', 'Sin fecha')
GetFecha(partido) ==
    IF "fecha" \in DOMAIN partido THEN partido.fecha ELSE "Sin fecha"

\* The n-th value (n >= 0) a tape yields.
Sorteo(cinta, n) == cinta[(n % Len(cinta)) + 1]

\* The dict `resultado` built for the match at enumerate index i (0-based).
ResultadoDesdeCero(i, partido, prediccion_key) ==
    [partido    |-> i,
     local      |-> partido.local,
     visitante  |-> partido.visitante,
     fecha      |-> GetFecha(partido),
     prediccion |-> prediccion_key,
     codigo     |-> predicciones[prediccion_key].codigo,
     simbolo    |-> predicciones[prediccion_key].simbolo]

Resultado(i, partido, prediccion_key) ==
    [partido    |-> i + 1,
     local      |-> partido.local,
     visitante  |-> partido.visitante,
     fecha      |-> GetFecha(partido),
     prediccion |-> prediccion_key,
     codigo     |-> predicciones[prediccion_key].codigo,
     simbolo    |-> predicciones[prediccion_key].simbolo]

\* random.choice(list(self.predicciones.keys())) on the n-th draw of `cinta`.
RandomChoiceClave(cinta, n) == ClavesPredicciones[Sorteo(cinta, n) + 1]

\* _generar_quiniela_individual, its draws read from `cinta` starting at
\* draw number `desde`.
_generar_quiniela_individual(lista, cinta, desde) ==
    LET corte == Primeros14(lista)
    IN  [k \in 1..Len(corte) |->
            Resultado(k - 1, corte[k], RandomChoiceClave(cinta, desde + k - 1))]

\* generar_quinielas without its empty-list guard.
generar_quinielas_sin_guarda(lista, cantidad, cinta) ==
    [j \in 1..cantidad |->
        _generar_quiniela_individual(
            lista, cinta, (j - 1) * Len(Primeros14(lista)))]

\* generar_quinielas with one slip too many.
generar_quinielas_una_mas(lista, cantidad, cinta) ==
    IF lista = <<>> THEN <<>>
    ELSE [j \in 1..(cantidad + 1) |->
            _generar_quiniela_individual(
                lista, cinta, (j - 1) * Len(Primeros14(lista)))]

\* generar_quinielas: slip j consumes the draws that follow those of slip j-1.
generar_quinielas(lista, cantidad, cinta) ==
    IF lista = <<>> THEN <<>>
    ELSE [j \in 1..cantidad |->
            _generar_quiniela_individual(
                lista, cinta, (j - 1) * Len(Primeros14(lista)))]

\* The dict `probabilidades`, in hundredths.
probabilidades ==
    [local     |-> [Local |-> 50, Empate |-> 25, Visitante |-> 25],
     visitante |-> [Local |-> 25, Empate |-> 25, Visitante |-> 50],
     empate    |-> [Local |-> 30, Empate |-> 40, Visitante |-> 30]]

\* probabilidades.get(tendencia, probabilidades['visitante'])
ProbDeVisitante(tendencia) ==
    IF tendencia \in DOMAIN probabilidades
    THEN probabilidades[tendencia] ELSE probabilidades["visitante"]

\* probabilidades.get(tendencia, probabilidades['local'])
ProbDe(tendencia) ==
    IF tendencia \in DOMAIN probabilidades
    THEN probabilidades[tendencia] ELSE probabilidades["local"]

\* The if/elif/else on rand_val with <= in place of <.
SeleccionInclusiva(prob, rand_val) ==
    IF rand_val <= prob.Local THEN "Local"
    ELSE IF rand_val <= prob.Local + prob.Empate THEN "Empate"
    ELSE "Visitante"

\* The if/elif/else on rand_val (in hundredths) of the biased loop.
Seleccion(prob, rand_val) ==
    IF rand_val < prob.Local THEN "Local"
    ELSE IF rand_val < prob.Local + prob.Empate THEN "Empate"
    ELSE "Visitante"

\* generar_quiniela_con_tendencia: `cinta` holds random.choice draws when
\* tendencia is 'equilibrada' and random.random draws otherwise.
generar_quiniela_con_tendencia(lista, tendencia, cinta) ==
    IF tendencia = "equilibrada"
    THEN _generar_quiniela_individual(lista, cinta, 0)
    ELSE LET prob == ProbDe(tendencia)
             corte == Primeros14(lista)
         IN  [k \in 1..Len(corte) |->
                Resultado(k - 1, corte[k],
                          Seleccion(prob, Sorteo(cinta, k - 1)))]

(***************************************************************************)
(* IEEE 754 binary64 arithmetic, as far as calcular_estadisticas_quiniela  *)
(* uses it.  A natural number of any size is a sequence of limbs, least    *)
(* significant first, each below Limb.  A positive float is                *)
(* [m |-> limbs, e |-> k]: a 53-bit significand with its top bit set,      *)
(* standing for m * 2^k.  Every operation computes its exact result and    *)
(* rounds it to nearest, ties to even.                                     *)
(***************************************************************************)

Limb == 2^15

\* Width of the binary64 significand.
Mantisa == 53

\* Number of binary digits of n, for 0 <= n < 2^30.
BitLenNat(n) ==
    CHOOSE k \in 0..30 : n < 2^k /\ (k = 0 \/ 2^(k - 1) <= n)

RECURSIVE TrimL(_)
\* A limb sequence without its leading (most significant) zero limbs.
TrimL(x) ==
    IF x # <<>> /\ x[Len(x)] = 0 THEN TrimL(SubSeq(x, 1, Len(x) - 1)) ELSE x

RECURSIVE NormL(_, _, _)
\* Carry propagation from limb i on, with carry c coming in.
NormL(x, i, c) ==
    IF i > Len(x) THEN (IF c = 0 THEN <<>> ELSE <<c>>)
    ELSE <<(x[i] + c) % Limb>> \o NormL(x, i + 1, (x[i] + c) \div Limb)

LimbAt(x, i) == IF i \in 1..Len(x) THEN x[i] ELSE 0

\* x + y
AddL(x, y) ==
    LET len == IF Len(x) > Len(y) THEN Len(x) ELSE Len(y)
    IN  TrimL(NormL([i \in 1..len |-> LimbAt(x, i) + LimbAt(y, i)], 1, 0))

\* x * k for an int 0 <= k < 2^15
MulSmallL(x, k) == TrimL(NormL([i \in 1..Len(x) |-> x[i] * k], 1, 0))

\* Number of binary digits of x.
BitLenL(x) ==
    LET t == TrimL(x)
    IN  IF t = <<>> THEN 0 ELSE 15 * (Len(t) - 1) + BitLenNat(t[Len(t)])

\* Binary digit j (j = 0 the lowest) of x.
BitL(x, j) == (LimbAt(x, (j \div 15) + 1) \div 2^(j % 15)) % 2

\* x * 2^s
ShiftLeftL(x, s) ==
    MulSmallL([i \in 1..(s \div 15) |-> 0] \o x, 2^(s % 15))

\* floor(x / 2^d)
ShiftRightL(x, d) ==
    LET w == d \div 15
        t == d % 15
    IN  TrimL([i \in 1..(Len(x) - w) |->
                (LimbAt(x, i + w) \div 2^t)
                + (LimbAt(x, i + w + 1) % 2^t) * 2^(15 - t)])

\* -1, 0 or 1 as x is below, equal to or above y.
CmpL(x, y) ==
    LET a == TrimL(x)
        b == TrimL(y)
    IN  IF Len(a) # Len(b) THEN (IF Len(a) < Len(b) THEN -1 ELSE 1)
        ELSE IF a = b THEN 0
        ELSE LET d == CHOOSE i \in 1..Len(a) :
                        a[i] # b[i] /\ \A j \in (i + 1)..Len(a) : a[j] = b[j]
             IN  IF a[d] < b[d] THEN -1 ELSE 1

\* Round the exact positive value x * 2^e to binary64, ties to even.
Round53(x, e) ==
    LET len == BitLenL(x)
        d == len - Mantisa
    IN  IF d <= 0
        THEN [m |-> ShiftLeftL(x, -d), e |-> e + d]
        ELSE LET q == ShiftRightL(x, d)
                 sticky == \E j \in 0..(d - 2) : BitL(x, j) = 1
                 up == BitL(x, d - 1) = 1 /\ (sticky \/ BitL(x, d) = 1)
                 r == IF up THEN AddL(q, <<1>>) ELSE q
             IN  IF BitLenL(r) > Mantisa
                 THEN [m |-> ShiftRightL(r, 1), e |-> e + d + 1]
                 ELSE [m |-> r, e |-> e + d]

\* float(n) for an int 1 <= n < 2^15.
FloatOfNat(n) == Round53(<<n>>, 0)

RECURSIVE LongDiv(_, _, _)
\* The quotient limbs (least significant first) of r * Limb^k by b, and the
\* remainder left: schoolbook division, one zero limb brought down per step.
LongDiv(r, b, k) ==
    IF k = 0 THEN <<>>
    ELSE LongDiv((r * Limb) % b, b, k - 1) \o <<(r * Limb) \div b>>

RECURSIVE LastRem(_, _, _)
LastRem(r, b, k) == IF k = 0 THEN r ELSE LastRem((r * Limb) % b, b, k - 1)

\* a / b for ints 1 <= a, b < 2^15 (Python's correctly rounded true
\* division): floor(a * 2^75 / b) holds at least 60 binary digits, and one
\* digit more records whether the division left a remainder.
DivFloat(a, b) ==
    LET q == LongDiv(a % b, b, 5) \o <<a \div b>>
        resto == IF LastRem(a % b, b, 5) = 0 THEN 0 ELSE 1
    IN  Round53(AddL(MulSmallL(q, 2), <<resto>>), -76)

\* x * k for a float x and an int 1 <= k < 2^15 (k converts exactly).
MulFloatNat(x, k) == Round53(MulSmallL(x.m, k), x.e)

\* x + y
AddFloat(x, y) ==
    LET e == Min(x.e, y.e)
    IN  Round53(AddL(ShiftLeftL(x.m, x.e - e), ShiftLeftL(y.m, y.e - e)), e)

\* -1, 0 or 1 as the exact value x.m * 2^x.e is below, equal to or above y.
CmpFloat(x, y) ==
    LET e == Min(x.e, y.e)
    IN  CmpL(ShiftLeftL(x.m, x.e - e), ShiftLeftL(y.m, y.e - e))

\* count / total, raising ZeroDivisionError on total = 0.
TrueDiv(count, total) ==
    IF total = 0 THEN [exc |-> "ZeroDivisionError"] ELSE DivFloat(count, total)

\* Whether a record stands for a raised exception.
IsExc(v) == "exc" \in DOMAIN v

(***************************************************************************)
(* calcular_estadisticas_quiniela                                          *)
(***************************************************************************)

\* Keys of an insertion-ordered dict, as a list and as a set.
DictKeys(d) == [i \in 1..Len(d) |-> d[i][1]]

DictKeySet(d) == {d[i][1] : i \in 1..Len(d)}

\* d[key], for a key of d.
DictGet(d, key) == d[CHOOSE i \in 1..Len(d) : d[i][1] = key][2]

\* d.get(key, 0)
DictGet0(d, key) == IF key \in DictKeySet(d) THEN DictGet(d, key) ELSE 0

\* d after d[key] = value: a present key keeps its place.
DictSet(d, key, value) ==
    IF key \in DictKeySet(d)
    THEN [i \in 1..Len(d) |-> IF d[i][1] = key THEN <<key, value>> ELSE d[i]]
    ELSE Append(d, <<key, value>>)

RECURSIVE ContarPredicciones(_, _, _)
\* The counting loop over the slip from entry i on.
ContarPredicciones(quiniela, i, cuenta) ==
    IF i > Len(quiniela) THEN cuenta
    ELSE LET pred == quiniela[i].prediccion
         IN  ContarPredicciones(quiniela, i + 1,
                DictSet(cuenta, pred, DictGet0(cuenta, pred) + 1))

\* (count / total_partidos) * 100 without the factor 100.
PorcentajeFraccion(count, total_partidos) == TrueDiv(count, total_partidos)

\* (count / total_partidos) * 100
Porcentaje(count, total_partidos) ==
    LET q == TrueDiv(count, total_partidos)
    IN  IF IsExc(q) THEN q ELSE MulFloatNat(q, 100)

\* The dict comprehension run over all three outcomes (zero-filled).
PorcentajesCeros(predicciones_count, total_partidos) ==
    [i \in 1..Len(ClavesPredicciones) |->
        <<ClavesPredicciones[i],
          LET c == DictGet0(predicciones_count, ClavesPredicciones[i])
          IN  IF c = 0 /\ total_partidos # 0 THEN [m |-> <<>>, e |-> 0]
              ELSE Porcentaje(c, total_partidos)>>]

\* The dict comprehension over predicciones_count.items().
Porcentajes(predicciones_count, total_partidos) ==
    [i \in 1..Len(predicciones_count) |->
        <<predicciones_count[i][1],
          Porcentaje(predicciones_count[i][2], total_partidos)>>]

\* calcular_estadisticas_quiniela: the dict it returns, or the exception a
\* division raised.
calcular_estadisticas_quiniela(quiniela) ==
    LET total_partidos == Len(quiniela)
        predicciones_count == ContarPredicciones(quiniela, 1, <<>>)
        porcentajes == Porcentajes(predicciones_count, total_partidos)
    IN  IF \E i \in 1..Len(porcentajes) : IsExc(porcentajes[i][2])
        THEN [exc |-> "ZeroDivisionError"]
        ELSE [total_partidos |-> total_partidos,
              predicciones   |-> predicciones_count,
              porcentajes    |-> porcentajes]

(***************************************************************************)
(* scraper.py: get_partidos and its three strategies.                      *)
(*                                                                         *)
(* The site is the record `sitio`.  Its field `respuesta` is what the      *)
(* requests/BeautifulSoup fetch gives, by its field `tipo`: "error" when   *)
(* anything in it raises (transport, HTTP status, parsing), or "ok" with   *)
(* the three groups of elements the three find_all calls return.  An       *)
(* element is the list re.findall yields on its text: the captured         *)
(* <<local, visitante>> pairs, untrimmed.  Its field `descarga` is what    *)
(* trafilatura gives: "error" when it raises, "none" when fetch_url        *)
(* returns nothing, "sin_texto" when extract finds no text, and "texto"    *)
(* with the list of lines, each line again the list of pairs its regex     *)
(* captures.                                                               *)
(***************************************************************************)

equipos_mexicanos ==
    <<"America", "Chivas", "Cruz Azul", "Pumas", "Tigres", "Monterrey",
      "Santos", "Leon", "Atlas", "Necaxa", "Pachuca", "Toluca",
      "Puebla", "Tijuana", "Mazatlan", "Queretaro", "Juarez", "San Luis">>

equipos_internacionales ==
    <<"Barcelona", "Real Madrid", "Manchester United", "Liverpool",
      "Bayern Munich", "PSG", "Juventus", "Inter Milan", "Chelsea",
      "Arsenal", "Manchester City", "Atletico Madrid", "Borussia Dortmund",
      "AC Milan">>

\* todos_los_equipos without the international names.
todos_los_equipos_solo_mexicanos == equipos_mexicanos

todos_los_equipos == equipos_mexicanos \o equipos_internacionales

\* The k-th team name a page of the site spells (k = 1, 2, ...).
EquipoDeSitio(k) ==
    todos_los_equipos[((k - 1) % Len(todos_los_equipos)) + 1]

Espacios == {" ", "\t", "\n", "\r"}

RECURSIVE LStrip(_)
LStrip(str) ==
    IF Len(str) > 0 /\ SubSeq(str, 1, 1) \in Espacios
    THEN LStrip(SubSeq(str, 2, Len(str))) ELSE str

RECURSIVE RStrip(_)
RStrip(str) ==
    IF Len(str) > 0 /\ SubSeq(str, Len(str), Len(str)) \in Espacios
    THEN RStrip(SubSeq(str, 1, Len(str) - 1)) ELSE str

\* str.strip()
Strip(str) == RStrip(LStrip(str))

\* The dict appended for one captured pair.
PartidoDeCaptura(match) ==
    [local     |-> Strip(match[1]),
     visitante |-> Strip(match[2]),
     fecha     |-> "Proxima jornada"]

RECURSIVE Concatenar(_)
\* The lists of a list, joined in order.
Concatenar(listas) ==
    IF listas = <<>> THEN <<>>
    ELSE Head(listas) \o Concatenar(Tail(listas))

\* The inner loops over one pattern group: every capture of every element.
PartidosDeGrupo(pattern_group) ==
    LET capturas == Concatenar(pattern_group)
    IN  [k \in 1..Len(capturas) |-> PartidoDeCaptura(capturas[k])]

RECURSIVE RecorrerPatrones(_, _, _)
\* The loop over `patterns` from group g on: it stops before a group once
\* `lista` holds anything.
RecorrerPatrones(patterns, g, lista) ==
    IF g > Len(patterns) \/ lista # <<>> THEN lista
    ELSE RecorrerPatrones(patterns, g + 1,
                          lista \o PartidosDeGrupo(patterns[g]))

\* The validity test of the filter loop, without the comparison of names.
EsValidoSinComparar(partido) ==
    Len(partido.local) > 2 /\ Len(partido.visitante) > 2

\* The validity test of the filter loop.
EsValido(partido) ==
    /\ Len(partido.local) > 2
    /\ Len(partido.visitante) > 2
    /\ partido.local # partido.visitante

RECURSIVE FiltrarValidos(_, _, _)
\* The filter loop from candidate i on: it breaks at 14 valid matches.
FiltrarValidos(lista, i, partidos_validos) ==
    IF i > Len(lista) \/ Len(partidos_validos) >= 14 THEN partidos_validos
    ELSE FiltrarValidos(lista, i + 1,
            IF EsValido(lista[i])
            THEN Append(partidos_validos, lista[i]) ELSE partidos_validos)

\* _scrape_with_requests
_scrape_with_requests(respuesta) ==
    IF respuesta.tipo = "error" THEN <<>>
    ELSE FiltrarValidos(
            RecorrerPatrones(
                <<respuesta.tablas, respuesta.divs, respuesta.textos>>,
                1, <<>>),
            1, <<>>)

\* The test before a line's pair is appended.
EsValidoTrafilatura(local, visitante) ==
    local # visitante /\ Len(local) > 2 /\ Len(visitante) > 2

RECURSIVE RecorrerLinea(_, _, _)
\* The loop over one line's captures from capture k on.
RecorrerLinea(matches, k, lista) ==
    IF k > Len(matches) \/ Len(lista) >= 14 THEN lista
    ELSE LET local == Strip(matches[k][1])
             visitante == Strip(matches[k][2])
         IN  RecorrerLinea(matches, k + 1,
                IF EsValidoTrafilatura(local, visitante)
                THEN Append(lista, [local     |-> local,
                                    visitante |-> visitante,
                                    fecha     |-> "Proxima jornada"])
                ELSE lista)

RECURSIVE RecorrerLineas(_, _, _)
\* The loop over the lines from line i on.
RecorrerLineas(lines, i, lista) ==
    IF i > Len(lines) \/ Len(lista) >= 14 THEN lista
    ELSE RecorrerLineas(lines, i + 1, RecorrerLinea(lines[i], 1, lista))

\* _scrape_with_trafilatura
_scrape_with_trafilatura(descarga) ==
    IF descarga.tipo = "error" THEN <<>>
    ELSE IF descarga.tipo = "none" THEN <<>>
    ELSE IF descarga.tipo = "sin_texto" THEN <<>>
    ELSE RecorrerLineas(descarga.lineas, 1, <<>>)

\* f'Jornada {i}' in place of f'Jornada {i+1}'
FechaJornadaDesdeCero(i) == "Jornada " \o ToString(i)

\* f'Jornada {i+1}'
FechaJornada(i) == "Jornada " \o ToString(i + 1)

\* list.remove(x): the list without the first x.
Remove(lista, x) ==
    LET p == CHOOSE k \in 1..Len(lista) :
                lista[k] = x /\ \A j \in 1..(k - 1) : lista[j] # x
    IN  SubSeq(lista, 1, p - 1) \o SubSeq(lista, p + 1, Len(lista))

\* random.choice(seq) on draw n of the tape.
RandomChoice(seq, cinta, n) == seq[(Sorteo(cinta, n) % Len(seq)) + 1]

\* One pass of the body of the loop `for i in range(14)`.  `est` holds the
\* locals: the pool list `todos` (the reset makes `disponibles` an alias of
\* it, so that remove() then shortens the pool itself), the set `usados`,
\* the list `partidos` and the number n of draws made.  random.choice on an
\* empty list raises IndexError.
PasoDeMuestra(est, i, cinta) ==
    LET libres == SelectSeq(est.todos, LAMBDA e : e \notin est.usados)
        reinicia == Len(libres) < 2
        disponibles == IF reinicia THEN est.todos ELSE libres
        usados0 == IF reinicia THEN {} ELSE est.usados
    IN  IF disponibles = <<>> THEN [exc |-> "IndexError", n |-> est.n]
        ELSE LET local == RandomChoice(disponibles, cinta, est.n)
                 resto == Remove(disponibles, local)
             IN  IF resto = <<>> THEN [exc |-> "IndexError", n |-> est.n + 1]
                 ELSE LET visitante == RandomChoice(resto, cinta, est.n + 1)
                      IN  [todos    |-> IF reinicia THEN resto ELSE est.todos,
                           usados   |-> usados0 \cup {local, visitante},
                           partidos |-> Append(est.partidos,
                                           [local     |-> local,
                                            visitante |-> visitante,
                                            fecha     |-> FechaJornada(i)]),
                           n        |-> est.n + 2,
                           reinicios |-> est.reinicios
                                         + (IF reinicia THEN 1 ELSE 0)]

RECURSIVE BucleDeMuestra(_, _, _)
\* The loop from pass i on (i = 0..13).
BucleDeMuestra(est, i, cinta) ==
    IF i >= 14 \/ IsExc(est) THEN est
    ELSE BucleDeMuestra(PasoDeMuestra(est, i, cinta), i + 1, cinta)

\* The locals of _generate_sample_partidos when its loop ends (or the
\* exception that ended it), its draws starting at draw number `desde`.
EstadoFinalDeMuestra(cinta, desde) ==
    BucleDeMuestra([todos |-> todos_los_equipos, usados |-> {},
                    partidos |-> <<>>, n |-> desde, reinicios |-> 0],
                   0, cinta)

\* get_partidos without the synthetic third strategy.
get_partidos_sin_muestra(sit, cinta) ==
    LET uno == _scrape_with_requests(sit.respuesta)
        dos == _scrape_with_trafilatura(sit.descarga)
    IN  IF uno # <<>>
        THEN [fin |-> "return", ret |-> uno, intentos |-> <<"requests">>]
        ELSE [fin |-> "return", ret |-> dos,
              intentos |-> <<"requests", "trafilatura">>]

\* get_partidos trying the plain-text strategy before the structured one.
get_partidos_texto_primero(sit, cinta) ==
    LET uno == _scrape_with_trafilatura(sit.descarga)
        dos == _scrape_with_requests(sit.respuesta)
        tres == EstadoFinalDeMuestra(cinta, 0)
    IN  IF uno # <<>>
        THEN [fin |-> "return", ret |-> uno, intentos |-> <<"trafilatura">>]
        ELSE IF dos # <<>>
        THEN [fin |-> "return", ret |-> dos,
              intentos |-> <<"trafilatura", "requests">>]
        ELSE [fin |-> "return", ret |-> tres.partidos,
              intentos |-> <<"trafilatura", "requests", "sample">>]

\* get_partidos: how it ends, what it returns or raises, and the strategies
\* it ran.  _generate_sample_partidos is the `partidos` of its final locals.
\* An exception of it inside the try block is caught and the generator is
\* called once more, its exception then reaching the caller.
get_partidos(sit, cinta) ==
    LET uno == _scrape_with_requests(sit.respuesta)
        dos == _scrape_with_trafilatura(sit.descarga)
        tres == EstadoFinalDeMuestra(cinta, 0)
        otra == EstadoFinalDeMuestra(cinta, tres.n)
    IN  IF uno # <<>>
        THEN [fin |-> "return", ret |-> uno, intentos |-> <<"requests">>]
        ELSE IF dos # <<>>
        THEN [fin |-> "return", ret |-> dos,
              intentos |-> <<"requests", "trafilatura">>]
        ELSE IF ~IsExc(tres)
        THEN [fin |-> "return", ret |-> tres.partidos,
              intentos |-> <<"requests", "trafilatura", "sample">>]
        ELSE IF ~IsExc(otra)
        THEN [fin |-> "return", ret |-> otra.partidos,
              intentos |-> <<"requests", "trafilatura", "sample", "sample">>]
        ELSE [fin |-> "raise", ret |-> [exc |-> otra.exc],
              intentos |-> <<"requests", "trafilatura", "sample", "sample">>]

(***************************************************************************)
(* scraper.py, the draw information.  The page text is what re.findall     *)
(* gives on it for each regex of the extractors, a list of matches:        *)
(* premio_pesos, premio_millones, premio_palabra (_extract_premios),       *)
(* fecha_larga, fecha_barras, fecha_de_sorteo (_extract_fecha_sorteo),     *)
(* jornada_num, concurso_num, sorteo_num (_extract_jornada), sorteo_num    *)
(* again and numero_de_sorteo (_extract_numero_sorteo).  A date is the     *)
(* number of its day, day 0 a Monday, written in decimal.                  *)
(***************************************************************************)

\* __init__: the object after construction
PrognolScraper_init ==
    [info_cache |-> [premios |-> NoneValue, fecha_sorteo |-> NoneValue,
                     jornada |-> NoneValue]]

\* for pattern in patterns: matches = re.findall(...); if matches: the
\* first match of the first pattern that has one, else <<>>
RECURSIVE PrimerMatch(_)
PrimerMatch(hallazgos) ==
    IF hallazgos = <<>> THEN <<>>
    ELSE IF Head(hallazgos) # <<>> THEN <<Head(hallazgos)[1]>>
    ELSE PrimerMatch(Tail(hallazgos))

_extract_premios(h) ==
    LET m == PrimerMatch(<<h.premio_pesos, h.premio_millones,
                           h.premio_palabra>>)
    IN  IF m # <<>> THEN "Premio estimado: " \o m[1]
        ELSE "Premio: Consultar pagina oficial"

\* hoy.weekday(): Monday is 0
Weekday(hoy) == hoy % 7

\* the day of the Sunday after hoy
ProximoDomingo(hoy) ==
    LET dias_hasta_domingo == (6 - Weekday(hoy)) % 7
    IN  hoy + (IF dias_hasta_domingo = 0 THEN 7 ELSE dias_hasta_domingo)

\* f"Proximo sorteo: {proximo_domingo.strftime('%d/%m/%Y')}"
EtiquetaProximoSorteo(hoy) ==
    "Proximo sorteo: " \o ToString(ProximoDomingo(hoy))

_extract_fecha_sorteo(h, hoy) ==
    LET m == PrimerMatch(<<h.fecha_larga, h.fecha_barras,
                           h.fecha_de_sorteo>>)
    IN  IF m # <<>> THEN m[1] ELSE EtiquetaProximoSorteo(hoy)

\* _extract_jornada with the fallback 'N/A'
_extract_jornada_na(h) ==
    LET m == PrimerMatch(<<h.jornada_num, h.concurso_num, h.sorteo_num>>)
    IN  IF m # <<>> THEN "Jornada " \o m[1] ELSE "N/A"

_extract_jornada(h) ==
    LET m == PrimerMatch(<<h.jornada_num, h.concurso_num, h.sorteo_num>>)
    IN  IF m # <<>> THEN "Jornada " \o m[1] ELSE "Jornada actual"

_extract_numero_sorteo(h) ==
    LET m == PrimerMatch(<<h.sorteo_num, h.numero_de_sorteo>>)
    IN  IF m # <<>> THEN m[1] ELSE "N/A"

_get_default_info(hoy) ==
    [premios |-> "Premio acumulado - Consultar pagina oficial",
     fecha_sorteo |-> EtiquetaProximoSorteo(hoy),
     jornada |-> "Jornada actual",
     numero_sorteo |-> "N/A"]

\* get_info_sorteo returning None, not the defaults, when the fetch fails.
get_info_sorteo_none_al_fallar(obj, pagina, hoy) ==
    IF pagina.tipo = "error"
    THEN [fin |-> "return", ret |-> NoneValue, obj |-> obj]
    ELSE LET info == [premios |-> _extract_premios(pagina.hallazgos),
                      fecha_sorteo |->
                          _extract_fecha_sorteo(pagina.hallazgos, hoy),
                      jornada |-> _extract_jornada(pagina.hallazgos),
                      numero_sorteo |->
                          _extract_numero_sorteo(pagina.hallazgos)]
         IN  [fin |-> "return", ret |-> info,
              obj |-> [obj EXCEPT !.info_cache = info]]

\* get_info_sorteo: how it ends, what it returns, and the object after it
get_info_sorteo(obj, pagina, hoy) ==
    IF pagina.tipo = "error"
    THEN [fin |-> "return", ret |-> _get_default_info(hoy), obj |-> obj]
    ELSE LET info == [premios |-> _extract_premios(pagina.hallazgos),
                      fecha_sorteo |->
                          _extract_fecha_sorteo(pagina.hallazgos, hoy),
                      jornada |-> _extract_jornada(pagina.hallazgos),
                      numero_sorteo |->
                          _extract_numero_sorteo(pagina.hallazgos)]
         IN  [fin |-> "return", ret |-> info,
              obj |-> [obj EXCEPT !.info_cache = info]]

(***************************************************************************)
(* The generator as a state machine.  The object keeps no state between    *)
(* calls, so one run is: a match list, one call of a generating method on  *)
(* it, then calls of the statistics on the slips that call returned.       *)
(***************************************************************************)

EquipoDeEntrada(k) == EquipoDeSitio(k)

\* A match list of n matches, pairwise different; every second match
\* carries no 'fecha' key.
ListaDeEntrada(n) ==
    [i \in 1..n |->
        IF i % 2 = 0
        THEN [local     |-> EquipoDeEntrada(2 * i - 1),
              visitante |-> EquipoDeEntrada(2 * i)]
        ELSE [local     |-> EquipoDeEntrada(2 * i - 1),
              visitante |-> EquipoDeEntrada(2 * i),
              fecha     |-> "Jornada " \o ToString(i)]]

ListasDeEntrada ==
    {ListaDeEntrada(n) : n \in 0..MaxEntrada}

\* Tapes of random.choice draws (an index into the three keys).
CintasChoice == UNION {[1..n -> 0..2] : n \in 1..MaxCinta}

\* Values random.random may return, in hundredths of [0, 1): for each bias
\* the two ends and the values on and just below the thresholds of its
\* triple (for a bias with no triple of its own, also 0.25, which the
\* local and the visitante triple answer differently).
ValoresReales(tendencia) ==
    CASE tendencia = "visitante" -> {0, 24, 25, 49, 50, 99}
      [] tendencia = "empate" -> {0, 29, 30, 69, 70, 99}
      [] OTHER -> {0, 25, 49, 50, 74, 75, 99}

\* Tapes of random.random draws.
CintasReales(tendencia) ==
    UNION {[1..n -> ValoresReales(tendencia)] : n \in 1..MaxCintaReal}

Tendencias == {"local", "visitante", "empate", "equilibrada", "otra"}

InitGen ==
    /\ partidos \in ListasDeEntrada
    /\ llamada = [op |-> "ninguna", fin |-> "return"]
    /\ azar = <<>>
    /\ retorno = NoneValue
    /\ sitio = NoneValue
    /\ intentos = <<>>
    /\ db = NoneValue
    /\ servidor = NoneValue
    /\ abiertas = 0
    /\ sesion = NoneValue
    /\ scraper = NoneValue

LlamarGenerarQuinielas ==
    \E cantidad \in 0..MaxCantidad, cinta \in CintasChoice :
        /\ llamada.op = "ninguna"
        /\ llamada' = [op |-> "generar_quinielas", cantidad |-> cantidad,
                       fin |-> "return"]
        /\ azar' = cinta
        /\ retorno' = generar_quinielas(partidos, cantidad, cinta)
        /\ UNCHANGED <<partidos, scraperVars, dbVars, sesion>>

LlamarGenerarQuinielaConTendencia ==
    \E tendencia \in Tendencias :
        \E cinta \in IF tendencia = "equilibrada"
                     THEN CintasChoice ELSE CintasReales(tendencia) :
            /\ llamada.op = "ninguna"
            /\ llamada' = [op |-> "generar_quiniela_con_tendencia",
                           tendencia |-> tendencia, fin |-> "return"]
            /\ azar' = cinta
            /\ retorno' = generar_quiniela_con_tendencia(
                              partidos, tendencia, cinta)
            /\ UNCHANGED <<partidos, scraperVars, dbVars, sesion>>

\* The slips the last call returned.
QuinielasDevueltas ==
    IF llamada.op = "generar_quinielas"
    THEN {retorno[j] : j \in 1..Len(retorno)}
    ELSE IF llamada.op = "generar_quiniela_con_tendencia" THEN {retorno}
    ELSE {}

LlamarCalcularEstadisticas ==
    \E quiniela \in QuinielasDevueltas :
        /\ retorno' = calcular_estadisticas_quiniela(quiniela)
        /\ llamada' = [op |-> "calcular_estadisticas_quiniela",
                       quiniela |-> quiniela,
                       fin |-> IF IsExc(retorno') THEN "raise" ELSE "return"]
        /\ azar' = <<>>
        /\ UNCHANGED <<partidos, scraperVars, dbVars, sesion>>

NextGen ==
    \/ LlamarGenerarQuinielas
    \/ LlamarGenerarQuinielaConTendencia
    \/ LlamarCalcularEstadisticas

SpecGen == InitGen /\ [][NextGen]_vars

(***************************************************************************)
(* The scraper as a state machine: the site answers in some fixed way, and *)
(* get_partidos is called on it.                                           *)
(***************************************************************************)

\* Captured pairs, as the first regex (names of one character or more,
\* spaces included) can capture them.
CapValida == <<" America", "Chivas ">>

CapValida2 == <<"Cruz Azul", "Pumas">>

CapIguales == <<"Leon", " Leon ">>

CapCorta == <<"ab", "Tigres">>

CapBlanca == <<"  ", "Santos">>

\* n captures of pairwise different teams.
CapturasLlenas(n) ==
    [i \in 1..n |-> <<EquipoDeSitio(2 * i - 1), EquipoDeSitio(2 * i) \o " ">>]

\* The pattern groups a page may hold: lists of elements.
GruposPosibles ==
    { <<>>,
      << <<>> >>,
      << <<CapIguales>> >>,
      << <<CapCorta, CapBlanca>> >>,
      << <<CapValida>> >>,
      << <<CapValida>>, <<>>, <<CapValida>> >>,
      << <<CapCorta, CapValida2>>, <<CapIguales, CapValida>> >>,
      << CapturasLlenas(MaxCapturas) >> }

Respuestas ==
    {[tipo |-> "error"]}
    \cup [tipo : {"ok"}, tablas : GruposPosibles, divs : GruposPosibles,
          textos : GruposPosibles]

\* Captured pairs, as the second regex (3 to 25 characters a name) can
\* capture them.
TrafValida == <<"America ", " Chivas">>

TrafIguales == <<"Leon ", " Leon">>

TrafCorta == <<" ab", "Tigres">>

TrafBlanca == <<"   ", "Santos">>

TextosPosibles ==
    { << <<>> >>,
      << <<TrafIguales, TrafCorta>>, <<TrafBlanca>> >>,
      << <<TrafCorta, TrafValida>>, <<>>, <<TrafValida>> >>,
      << CapturasLlenas(MaxCapturas) >>,
      << CapturasLlenas(MaxCapturas - 2), CapturasLlenas(MaxCapturas) >>,
      [i \in 1..MaxCapturas |-> <<CapturasLlenas(MaxCapturas)[i]>>] }

Descargas ==
    {[tipo |-> "error"], [tipo |-> "none"], [tipo |-> "sin_texto"]}
    \cup [tipo : {"texto"}, lineas : TextosPosibles]

Sitios == [respuesta : Respuestas, descarga : Descargas]

\* Tapes of the draws random.choice makes in the synthetic generator.
ValoresIndice == {0, 1, 31}

CintasIndice == UNION {[1..n -> ValoresIndice] : n \in 1..MaxCintaIndice}

\* Whether get_partidos reaches its third strategy on this site.
LlegaALaMuestra(sit) ==
    /\ _scrape_with_requests(sit.respuesta) = <<>>
    /\ _scrape_with_trafilatura(sit.descarga) = <<>>

InitScraper ==
    /\ sitio \in Sitios
    /\ llamada = [op |-> "ninguna", fin |-> "return"]
    /\ azar = <<>>
    /\ retorno = NoneValue
    /\ partidos = <<>>
    /\ intentos = <<>>
    /\ db = NoneValue
    /\ servidor = NoneValue
    /\ abiertas = 0
    /\ sesion = NoneValue
    /\ scraper = PrognolScraper_init

LlamarGetPartidos ==
    \E cinta \in IF LlegaALaMuestra(sitio) THEN CintasIndice ELSE {<<>>} :
        LET r == get_partidos(sitio, cinta)
        IN  /\ llamada.op = "ninguna"
            /\ llamada' = [op |-> "get_partidos", fin |-> r.fin]
            /\ azar' = cinta
            /\ retorno' = r.ret
            /\ intentos' = r.intentos
            /\ UNCHANGED <<partidos, sitio, dbVars, sesion, scraper>>

NextScraper == LlamarGetPartidos

SpecScraper == InitScraper /\ [][NextScraper]_vars

(***************************************************************************)
(* Properties of the slip generator, checked under SpecGen.                *)
(***************************************************************************)

Resultados == {"Local", "Empate", "Visitante"}

\* C1: for a non-empty match list of n matches and a count k >= 0,
\* generar_quinielas returns exactly k slips, each of min(n, 14) entries,
\* and every entry's prediccion is Local, Empate or Visitante.
C1_CantidadYLongitud ==
    (llamada.op = "generar_quinielas" /\ partidos # <<>>) =>
        /\ llamada.fin = "return"
        /\ Len(retorno) = llamada.cantidad
        /\ \A j \in 1..Len(retorno) :
            /\ Len(retorno[j]) = Min(Len(partidos), 14)
            /\ \A i \in 1..Len(retorno[j]) :
                retorno[j][i].prediccion \in Resultados

\* Two slips were asked for on a list of more than 14 matches.
C1_Testigo ==
    /\ llamada.op = "generar_quinielas"
    /\ Len(partidos) > 14
    /\ llamada.cantidad = 2
    /\ Len(retorno) = 2
    /\ Len(retorno[2]) = 14

\* C2: generar_quinielas on the empty match list returns the empty list,
\* not k empty slips, whatever the count k >= 0.
C2_ListaVaciaSinQuinielas ==
    (llamada.op = "generar_quinielas" /\ partidos = <<>>) =>
        llamada.fin = "return" /\ Len(retorno) = 0

\* Two slips were asked for on the empty list.
C2_Testigo ==
    /\ llamada.op = "generar_quinielas"
    /\ partidos = <<>>
    /\ llamada.cantidad = 2

\* code and glyph the constant table fixes for an outcome
CodigoEsperado(prediccion) ==
    CASE prediccion = "Local" -> "1"
      [] prediccion = "Empate" -> "X"
      [] prediccion = "Visitante" -> "2"

SimboloEsperado(prediccion) ==
    CASE prediccion = "Local" -> "U+1F3E0"
      [] prediccion = "Empate" -> "U+1F91D"
      [] prediccion = "Visitante" -> "U+2708 U+FE0F"

\* C3: a slip built by the uniform single-slip generator or by
\* generar_quiniela_con_tendencia on n >= 0 matches has min(14, n) entries,
\* and entry i has partido = i, the local, visitante and date label of the
\* i-th match ('Sin fecha' when the match carries none), and the codigo and
\* simbolo of its prediccion.
C3_EntradasDeLaQuiniela ==
    \A q \in QuinielasDevueltas :
        /\ Len(q) = Min(14, Len(partidos))
        /\ \A i \in 1..Len(q) :
            /\ q[i].partido = i
            /\ q[i].local = partidos[i].local
            /\ q[i].visitante = partidos[i].visitante
            /\ q[i].fecha = IF "fecha" \in DOMAIN partidos[i]
                            THEN partidos[i].fecha ELSE "Sin fecha"
            /\ q[i].prediccion \in Resultados
            /\ q[i].codigo = CodigoEsperado(q[i].prediccion)
            /\ q[i].simbolo = SimboloEsperado(q[i].prediccion)

\* A biased slip over more than 14 matches, with a match that has no date
\* and all three outcomes in it.
C3_Testigo ==
    /\ llamada.op = "generar_quiniela_con_tendencia"
    /\ llamada.tendencia = "visitante"
    /\ Len(partidos) > 14
    /\ Len(retorno) = 14
    /\ retorno[2].fecha = "Sin fecha"
    /\ retorno[1].prediccion = "Local"
    /\ retorno[2].prediccion = "Visitante"

\* The probability triples of the three biases, in hundredths.
TernaDe(tendencia) ==
    CASE tendencia = "local" -> <<50, 25, 25>>
      [] tendencia = "visitante" -> <<25, 25, 50>>
      [] tendencia = "empate" -> <<30, 40, 30>>

\* The outcome the thresholds of a triple give the drawn value r.
ResultadoPorUmbral(terna, r) ==
    IF r < terna[1] THEN "Local"
    ELSE IF r < terna[1] + terna[2] THEN "Empate"
    ELSE "Visitante"

\* The value random.random returned for entry i of the slip.
ValorSorteado(i) == azar[((i - 1) % Len(azar)) + 1]

\* C7: with bias local, visitante or empate, the outcome of every entry is
\* Local if its drawn value r < p(Local), else Empate if
\* r < p(Local) + p(Empate), else Visitante, for the triples (0.50, 0.25,
\* 0.25), (0.25, 0.25, 0.50) and (0.30, 0.40, 0.30); each triple sums to 1.
C7_SeleccionPorUmbrales ==
    (llamada.op = "generar_quiniela_con_tendencia"
     /\ llamada.tendencia \in {"local", "visitante", "empate"}) =>
        LET terna == TernaDe(llamada.tendencia)
            prob == probabilidades[llamada.tendencia]
        IN  /\ terna[1] + terna[2] + terna[3] = 100
            /\ prob.Local + prob.Empate + prob.Visitante = 100
            /\ \A i \in 1..Len(retorno) :
                retorno[i].prediccion =
                    ResultadoPorUmbral(terna, ValorSorteado(i))

\* Bias empate with the draws 0.30 and 0.70, each exactly on a threshold.
C7_Testigo ==
    /\ llamada.op = "generar_quiniela_con_tendencia"
    /\ llamada.tendencia = "empate"
    /\ azar = <<30, 70>>
    /\ Len(retorno) >= 2
    /\ retorno[1].prediccion = "Empate"
    /\ retorno[2].prediccion = "Visitante"

\* C8: a bias other than local, visitante, empate and equilibrada selects,
\* on the same matches and the same drawn values, the outcomes bias local
\* selects; equilibrada gives the slip of the uniform single-slip
\* generator, each outcome the key random.choice drew.
C8_TendenciaDesconocida ==
    llamada.op = "generar_quiniela_con_tendencia" =>
        /\ llamada.tendencia \notin
                {"local", "visitante", "empate", "equilibrada"} =>
            retorno = generar_quiniela_con_tendencia(partidos, "local", azar)
        /\ llamada.tendencia = "equilibrada" =>
            /\ Len(retorno) = Min(14, Len(partidos))
            /\ \A i \in 1..Len(retorno) :
                retorno[i].prediccion =
                    <<"Local", "Empate", "Visitante">>[ValorSorteado(i) + 1]

\* An unknown bias with draws that the local and the visitante triple
\* answer differently.
C8_Testigo ==
    /\ llamada.op = "generar_quiniela_con_tendencia"
    /\ llamada.tendencia = "otra"
    /\ azar = <<25, 74>>
    /\ Len(retorno) >= 2
    /\ retorno[1].prediccion = "Local"
    /\ retorno[2].prediccion = "Empate"

\* The sum of the values of a dict of ints.
RECURSIVE SumaDeCuentas(_)
SumaDeCuentas(d) ==
    IF d = <<>> THEN 0 ELSE d[1][2] + SumaDeCuentas(Tail(d))

\* sum() of the three values of a dict of floats, in the dict's order.
SumaDeTres(d) == AddFloat(AddFloat(d[1][2], d[2][2]), d[3][2])

\* The exact value x + y, not rounded.
SumaExacta(x, y) ==
    LET e == Min(x.e, y.e)
    IN  [m |-> AddL(ShiftLeftL(x.m, x.e - e), ShiftLeftL(y.m, y.e - e)),
         e |-> e]

\* 2^-40, about 9.1e-13.
Tolerancia == [m |-> <<1>>, e |-> -40]

\* |x - y| <= Tolerancia
Cerca(x, y) ==
    /\ CmpFloat(x, SumaExacta(y, Tolerancia)) <= 0
    /\ CmpFloat(y, SumaExacta(x, Tolerancia)) <= 0

EstadisticasDevueltas ==
    llamada.op = "calcular_estadisticas_quiniela" /\ llamada.fin = "return"

TresResultados == DictKeySet(retorno.predicciones) = Resultados

\* C9 as stated: total_partidos is the slip's length, the counts sum to it,
\* and the percentages sum to exactly 100 when all three outcomes appear.
C9_SumaExactamenteCien ==
    EstadisticasDevueltas =>
        /\ retorno.total_partidos = Len(llamada.quiniela)
        /\ SumaDeCuentas(retorno.predicciones) = Len(llamada.quiniela)
        /\ TresResultados =>
            CmpFloat(SumaDeTres(retorno.porcentajes), FloatOfNat(100)) = 0

\* C9, amended: total_partidos is the slip's length, the counts sum to it,
\* and when all three outcomes appear the percentages, added as floats in
\* the dict's order, are within 2^-40 of 100.
C9_SumaCercaDeCien ==
    EstadisticasDevueltas =>
        /\ retorno.total_partidos = Len(llamada.quiniela)
        /\ SumaDeCuentas(retorno.predicciones) = Len(llamada.quiniela)
        /\ TresResultados =>
            Cerca(SumaDeTres(retorno.porcentajes), FloatOfNat(100))

\* The statistics of a slip of 14 entries with all three outcomes in it.
C9_Testigo ==
    /\ EstadisticasDevueltas
    /\ TresResultados
    /\ retorno.total_partidos = 14

\* C10: the counts and the percentages have the same keys, exactly the
\* outcomes that occur in the slip, each once; for the empty slip both
\* dicts are empty, the total is 0 and nothing is raised.
C10_ClavesPresentes ==
    llamada.op = "calcular_estadisticas_quiniela" =>
        /\ llamada.fin = "return"
        /\ DictKeys(retorno.predicciones) = DictKeys(retorno.porcentajes)
        /\ DictKeySet(retorno.predicciones) =
                {llamada.quiniela[i].prediccion :
                    i \in 1..Len(llamada.quiniela)}
        /\ Cardinality(DictKeySet(retorno.predicciones)) =
                Len(retorno.predicciones)
        /\ \A i \in 1..Len(retorno.predicciones) :
                retorno.predicciones[i][2] > 0
        /\ Len(llamada.quiniela) = 0 =>
            /\ Len(retorno.predicciones) = 0
            /\ Len(retorno.porcentajes) = 0
            /\ retorno.total_partidos = 0

\* The statistics of the empty slip, and those of a slip with one outcome
\* absent, are both cases; this is the empty slip.
C10_Testigo ==
    /\ llamada.op = "calcular_estadisticas_quiniela"
    /\ Len(llamada.quiniela) = 0
    /\ llamada.fin = "return"

(***************************************************************************)
(* Properties of get_partidos, checked under SpecScraper.                  *)
(***************************************************************************)

GetPartidosLlamado == llamada.op = "get_partidos"

\* The source is unreachable: the structured fetch raises and the plain-text
\* fetch raises or yields nothing, or the plain-text fetch raises and the
\* structured strategy finds no match.
Inalcanzable ==
    \/ /\ sitio.respuesta.tipo = "error"
       /\ sitio.descarga.tipo \in {"error", "none", "sin_texto"}
    \/ /\ sitio.descarga.tipo = "error"
       /\ _scrape_with_requests(sitio.respuesta) = <<>>

EquiposDeLaMuestra ==
    {todos_los_equipos[k] : k \in 1..Len(todos_los_equipos)}

\* C4: get_partidos never raises, and when the source is unreachable (the
\* structured fetch fails and the plain-text fetch fails or yields nothing,
\* or a fetch raises and the other strategy finds no match) it returns
\* exactly 14 matches, all of them synthetic.
C4_NuncaLanzaYCatorce ==
    GetPartidosLlamado =>
        /\ llamada.fin = "return"
        /\ Inalcanzable =>
            /\ Len(retorno) = 14
            /\ \A i \in 1..Len(retorno) :
                /\ retorno[i].local \in EquiposDeLaMuestra
                /\ retorno[i].visitante \in EquiposDeLaMuestra

\* Both fetches raised.
C4_Testigo ==
    /\ GetPartidosLlamado
    /\ sitio.respuesta.tipo = "error"
    /\ sitio.descarga.tipo = "error"
    /\ Len(retorno) = 14

\* C5: whichever strategy produced it, the list get_partidos returns has at
\* most 14 matches, each with local # visitante and both names non-empty
\* after trimming.
C5_PartidosValidos ==
    (GetPartidosLlamado /\ llamada.fin = "return") =>
        /\ Len(retorno) <= 14
        /\ \A i \in 1..Len(retorno) :
            /\ retorno[i].local # retorno[i].visitante
            /\ Len(Strip(retorno[i].local)) > 0
            /\ Len(Strip(retorno[i].visitante)) > 0

\* The structured strategy answered, on a page whose first capture is a
\* pair of equal names.
C5_Testigo ==
    /\ GetPartidosLlamado
    /\ intentos = <<"requests">>
    /\ sitio.respuesta.tablas = << <<CapCorta, CapValida2>>,
                                   <<CapIguales, CapValida>> >>
    /\ Len(retorno) = 2

EtiquetasDeJornada ==
    <<"Jornada 1", "Jornada 2", "Jornada 3", "Jornada 4", "Jornada 5",
      "Jornada 6", "Jornada 7", "Jornada 8", "Jornada 9", "Jornada 10",
      "Jornada 11", "Jornada 12", "Jornada 13", "Jornada 14">>

\* C6: _generate_sample_partidos ends without raising (one call of it
\* suffices) and returns exactly 14 pairs, pair i with local # visitante
\* and the label "Jornada i".
C6_MuestraDeCatorce ==
    (GetPartidosLlamado /\ \E k \in 1..Len(intentos) : intentos[k] = "sample")
    =>  /\ intentos = <<"requests", "trafilatura", "sample">>
        /\ llamada.fin = "return"
        /\ Len(retorno) = 14
        /\ \A i \in 1..Len(retorno) :
            /\ retorno[i].local # retorno[i].visitante
            /\ retorno[i].fecha = EtiquetasDeJornada[i]

\* The synthetic generator ran, every draw picking the last free team.
C6_Testigo ==
    /\ GetPartidosLlamado
    /\ intentos = <<"requests", "trafilatura", "sample">>
    /\ azar = <<31, 31>>
    /\ Len(retorno) = 14

(***************************************************************************)
(* database.py.  The PostgreSQL server is [existe, filas, sec, reloj]:     *)
(* whether the table quinielas exists, its rows, the last value of the     *)
(* SERIAL sequence of id and the last value CURRENT_TIMESTAMP gave (one    *)
(* session, one transaction at a time: every insert gets a later time).    *)
(* An operation is given the place where it fails, if any: "connect"       *)
(* (psycopg2.connect raises), "execute" (a statement raises) or "commit"   *)
(* (the commit raises and the transaction is lost); a statement on a       *)
(* missing table raises as well.  Its result is [fin, ret, servidor,       *)
(* conecta, dejadas]: how it ends, what it returns, the server after it,   *)
(* whether it called _get_connection, and how many connections it opened   *)
(* and did not close.                                                      *)
(***************************************************************************)

MaxGuardadas == 2      \* most values the sequence of id gives out
MaxAbiertas == 2       \* most connections left open that are counted

DATABASE_URL == "postgresql://host/progol"

Fallas == {"ninguna", "connect", "execute", "commit"}

\* json.dumps(quiniela, ensure_ascii=False): the JSON text of the slip
JsonDumps(quiniela) == [json |-> quiniela]

\* the value psycopg2 gives for the JSONB document of a JSON text
JsonLoads(texto) == texto.json

\* _get_connection: psycopg2.connect(self.database_url); without a
\* connection string connect raises.
_get_connection(d, falla) ==
    IF d.database_url = NoneValue THEN [exc |-> "TypeError"]
    ELSE IF falla = "connect" THEN [exc |-> "OperationalError"]
    ELSE [conn |-> "abierta"]

\* whether a statement on the table raises
EjecutarFalla(srv, falla) == falla = "execute" \/ ~srv.existe

Resultado_db(ret, srv, conecta, dejadas) ==
    [fin |-> "return", ret |-> ret, servidor |-> srv, conecta |-> conecta,
     dejadas |-> dejadas]

\* _init_database
_init_database(d, srv, falla) ==
    IF IsExc(_get_connection(d, falla))
    THEN Resultado_db(NoneValue, srv, TRUE, 0)
    ELSE IF falla \in {"execute", "commit"}
    THEN Resultado_db(NoneValue, srv, TRUE, 1)
    ELSE Resultado_db(NoneValue, [srv EXCEPT !.existe = TRUE], TRUE, 0)

\* __init__ with self.db_available = True
QuinielaDatabase_siempre_disponible(url, srv, falla) ==
    LET d == [database_url |-> url, db_available |-> TRUE]
        r == _init_database(d, srv, falla)
    IN  [r EXCEPT !.ret = d]

\* __init__ with os.environ.get('DATABASE_URL') = url
QuinielaDatabase(url, srv, falla) ==
    LET d == [database_url |-> url, db_available |-> url # NoneValue]
        r == IF d.db_available THEN _init_database(d, srv, falla)
             ELSE Resultado_db(NoneValue, srv, FALSE, 0)
    IN  [r EXCEPT !.ret = d]

\* the value of the except branch of an operation
AlFallar(ret, srv, dejadas) == Resultado_db(ret, srv, TRUE, dejadas)

\* guardar_quiniela: the id of the new row, or None.  The sequence gives
\* its value when the INSERT runs, and does not take it back when the
\* transaction is lost.
guardar_quiniela(d, srv, quiniela, falla) ==
    IF ~d.db_available THEN Resultado_db(NoneValue, srv, FALSE, 0)
    ELSE IF IsExc(_get_connection(d, falla))
    THEN AlFallar(NoneValue, srv, 0)
    ELSE IF EjecutarFalla(srv, falla) THEN AlFallar(NoneValue, srv, 1)
    ELSE LET quiniela_id == srv.sec + 1
             fila == [id |-> quiniela_id,
                      fecha_generacion |-> srv.reloj + 1,
                      num_partidos |-> Len(quiniela),
                      datos |-> JsonDumps(quiniela)]
         IN  IF falla = "commit"
             THEN AlFallar(NoneValue, [srv EXCEPT !.sec = quiniela_id], 1)
             ELSE Resultado_db(quiniela_id,
                               [srv EXCEPT !.sec = quiniela_id,
                                           !.reloj = srv.reloj + 1,
                                           !.filas = srv.filas \cup {fila}],
                               TRUE, 0)

\* one row as the operations return it
FilaDevuelta(row) ==
    [id |-> row.id, fecha_generacion |-> row.fecha_generacion,
     num_partidos |-> row.num_partidos, datos |-> JsonLoads(row.datos)]

\* ORDER BY fecha_generacion DESC LIMIT limite
RECURSIVE OrdenarYLimitar(_, _)
OrdenarYLimitar(filas, limite) ==
    IF filas = {} \/ limite = 0 THEN <<>>
    ELSE LET ultima == CHOOSE r \in filas : \A o \in filas :
                            o.fecha_generacion <= r.fecha_generacion
         IN  <<ultima>> \o OrdenarYLimitar(filas \ {ultima}, limite - 1)

RECURSIVE FilasDevueltas(_)
FilasDevueltas(rows) ==
    IF rows = <<>> THEN <<>>
    ELSE <<FilaDevuelta(Head(rows))>> \o FilasDevueltas(Tail(rows))

\* obtener_quinielas: a negative LIMIT makes the statement raise
obtener_quinielas(d, srv, limite, falla) ==
    IF ~d.db_available THEN Resultado_db(<<>>, srv, FALSE, 0)
    ELSE IF IsExc(_get_connection(d, falla)) THEN AlFallar(<<>>, srv, 0)
    ELSE IF EjecutarFalla(srv, falla) \/ limite < 0
    THEN AlFallar(<<>>, srv, 1)
    ELSE Resultado_db(FilasDevueltas(OrdenarYLimitar(srv.filas, limite)),
                      srv, TRUE, 0)

\* obtener_quiniela_por_id
obtener_quiniela_por_id(d, srv, quiniela_id, falla) ==
    IF ~d.db_available THEN Resultado_db(NoneValue, srv, FALSE, 0)
    ELSE IF IsExc(_get_connection(d, falla))
    THEN AlFallar(NoneValue, srv, 0)
    ELSE IF EjecutarFalla(srv, falla) THEN AlFallar(NoneValue, srv, 1)
    ELSE LET rows == {r \in srv.filas : r.id = quiniela_id}
         IN  IF rows # {}
             THEN Resultado_db(FilaDevuelta(CHOOSE r \in rows : TRUE),
                               srv, TRUE, 0)
             ELSE Resultado_db(NoneValue, srv, TRUE, 0)

\* eliminar_quiniela letting its exceptions through
eliminar_quiniela_sin_try(d, srv, quiniela_id, falla) ==
    IF ~d.db_available THEN Resultado_db(FALSE, srv, FALSE, 0)
    ELSE IF IsExc(_get_connection(d, falla))
    THEN [AlFallar([exc |-> "OperationalError"], srv, 0)
            EXCEPT !.fin = "raise"]
    ELSE IF EjecutarFalla(srv, falla) \/ falla = "commit"
    THEN [AlFallar([exc |-> "DatabaseError"], srv, 1) EXCEPT !.fin = "raise"]
    ELSE Resultado_db({r \in srv.filas : r.id = quiniela_id} # {},
                      [srv EXCEPT !.filas =
                            {r \in srv.filas : r.id # quiniela_id}],
                      TRUE, 0)

\* eliminar_quiniela closing the connection without conn.commit()
eliminar_quiniela_sin_commit(d, srv, quiniela_id, falla) ==
    IF ~d.db_available THEN Resultado_db(FALSE, srv, FALSE, 0)
    ELSE IF IsExc(_get_connection(d, falla)) THEN AlFallar(FALSE, srv, 0)
    ELSE IF EjecutarFalla(srv, falla) \/ falla = "commit"
    THEN AlFallar(FALSE, srv, 1)
    ELSE Resultado_db({r \in srv.filas : r.id = quiniela_id} # {},
                      srv, TRUE, 0)

\* eliminar_quiniela with eliminado = cur.rowcount >= 0
eliminar_quiniela_siempre_true(d, srv, quiniela_id, falla) ==
    IF ~d.db_available THEN Resultado_db(FALSE, srv, FALSE, 0)
    ELSE IF IsExc(_get_connection(d, falla)) THEN AlFallar(FALSE, srv, 0)
    ELSE IF EjecutarFalla(srv, falla) \/ falla = "commit"
    THEN AlFallar(FALSE, srv, 1)
    ELSE Resultado_db(TRUE,
                      [srv EXCEPT !.filas =
                            {r \in srv.filas : r.id # quiniela_id}],
                      TRUE, 0)

\* eliminar_quiniela: eliminado = cur.rowcount > 0
eliminar_quiniela(d, srv, quiniela_id, falla) ==
    IF ~d.db_available THEN Resultado_db(FALSE, srv, FALSE, 0)
    ELSE IF IsExc(_get_connection(d, falla)) THEN AlFallar(FALSE, srv, 0)
    ELSE IF EjecutarFalla(srv, falla) \/ falla = "commit"
    THEN AlFallar(FALSE, srv, 1)
    ELSE Resultado_db({r \in srv.filas : r.id = quiniela_id} # {},
                      [srv EXCEPT !.filas =
                            {r \in srv.filas : r.id # quiniela_id}],
                      TRUE, 0)

EstadisticasVacias ==
    [total_quinielas |-> 0, primera_quiniela |-> NoneValue,
     ultima_quiniela |-> NoneValue]

\* MIN(fecha_generacion) and MAX(fecha_generacion): NULL on no row
FechaMinima(filas) ==
    IF filas = {} THEN NoneValue
    ELSE LET r == CHOOSE r \in filas : \A o \in filas :
                        r.fecha_generacion <= o.fecha_generacion
         IN  [fecha |-> r.fecha_generacion]

FechaMaxima(filas) ==
    IF filas = {} THEN NoneValue
    ELSE LET r == CHOOSE r \in filas : \A o \in filas :
                        o.fecha_generacion <= r.fecha_generacion
         IN  [fecha |-> r.fecha_generacion]

\* obtener_estadisticas
obtener_estadisticas(d, srv, falla) ==
    IF ~d.db_available THEN Resultado_db(EstadisticasVacias, srv, FALSE, 0)
    ELSE IF IsExc(_get_connection(d, falla))
    THEN AlFallar(EstadisticasVacias, srv, 0)
    ELSE IF EjecutarFalla(srv, falla) THEN AlFallar(EstadisticasVacias, srv, 1)
    ELSE Resultado_db([total_quinielas |-> Cardinality(srv.filas),
                       primera_quiniela |-> FechaMinima(srv.filas),
                       ultima_quiniela |-> FechaMaxima(srv.filas)],
                      srv, TRUE, 0)

(***************************************************************************)
(* The slip store as a state machine: the object is constructed once, with *)
(* or without DATABASE_URL in the environment, and its operations are then *)
(* called in any order, each failing at any place or nowhere.              *)
(***************************************************************************)

\* Slips the generator returned, to be saved.
QuinielasParaGuardar ==
    {generar_quiniela_con_tendencia(ListaDeEntrada(1), "local", <<0>>),
     generar_quiniela_con_tendencia(ListaDeEntrada(2), "local", <<0, 99>>)}

\* Identifiers asked for: those the sequence can give, and one more.
IdsPedidos == 1..(MaxGuardadas + 1)

\* Values of the parameter limite: the default 50 among them.
Limites == {-1, 0, 1, 50}

FallasSinCommit == {"ninguna", "connect", "execute"}

ServidoresIniciales ==
    [existe : BOOLEAN, filas : {{}}, sec : {0}, reloj : {0}]

InitDB ==
    /\ db = NoneValue
    /\ servidor \in ServidoresIniciales
    /\ abiertas = 0
    /\ llamada = [op |-> "ninguna", fin |-> "return"]
    /\ retorno = NoneValue
    /\ partidos = <<>>
    /\ azar = <<>>
    /\ sitio = NoneValue
    /\ intentos = <<>>
    /\ sesion = NoneValue
    /\ scraper = NoneValue

\* What a call of an operation with result r leaves behind.
Efecto(r, argumentos) ==
    /\ abiertas + r.dejadas <= MaxAbiertas
    /\ llamada' = [op |-> argumentos.op, arg |-> argumentos.arg,
                   falla |-> argumentos.falla, fin |-> r.fin,
                   conecta |-> r.conecta, dejadas |-> r.dejadas]
    /\ retorno' = r.ret
    /\ servidor' = r.servidor
    /\ abiertas' = abiertas + r.dejadas
    /\ UNCHANGED <<partidos, azar, scraperVars, sesion>>

Construir ==
    \E url \in {NoneValue, [url |-> DATABASE_URL]} :
        \E falla \in IF url = NoneValue THEN {"ninguna"} ELSE Fallas :
            LET r == QuinielaDatabase(url, servidor, falla)
            IN  /\ db = NoneValue
                /\ db' = r.ret
                /\ Efecto(r, [op |-> "__init__", arg |-> url,
                              falla |-> falla])

Guardar ==
    \E quiniela \in QuinielasParaGuardar, falla \in Fallas :
        /\ db # NoneValue
        /\ servidor.sec < MaxGuardadas
        /\ Efecto(guardar_quiniela(db, servidor, quiniela, falla),
                  [op |-> "guardar_quiniela", arg |-> quiniela,
                   falla |-> falla])
        /\ UNCHANGED db

Listar ==
    \E limite \in Limites, falla \in FallasSinCommit :
        /\ db # NoneValue
        /\ Efecto(obtener_quinielas(db, servidor, limite, falla),
                  [op |-> "obtener_quinielas", arg |-> limite,
                   falla |-> falla])
        /\ UNCHANGED db

ObtenerPorId ==
    \E quiniela_id \in IdsPedidos, falla \in FallasSinCommit :
        /\ db # NoneValue
        /\ Efecto(obtener_quiniela_por_id(db, servidor, quiniela_id, falla),
                  [op |-> "obtener_quiniela_por_id", arg |-> quiniela_id,
                   falla |-> falla])
        /\ UNCHANGED db

Eliminar ==
    \E quiniela_id \in IdsPedidos, falla \in Fallas :
        /\ db # NoneValue
        /\ Efecto(eliminar_quiniela(db, servidor, quiniela_id, falla),
                  [op |-> "eliminar_quiniela", arg |-> quiniela_id,
                   falla |-> falla])
        /\ UNCHANGED db

Estadisticas ==
    \E falla \in FallasSinCommit :
        /\ db # NoneValue
        /\ Efecto(obtener_estadisticas(db, servidor, falla),
                  [op |-> "obtener_estadisticas", arg |-> NoneValue,
                   falla |-> falla])
        /\ UNCHANGED db

NextDB ==
    \/ Construir
    \/ Guardar
    \/ Listar
    \/ ObtenerPorId
    \/ Eliminar
    \/ Estadisticas

SpecDB == InitDB /\ [][NextDB]_vars

(***************************************************************************)
(* Properties of the slip store, checked under SpecDB.                     *)
(***************************************************************************)

Construido == db # NoneValue

Ids(filas) == {r.id : r \in filas}

\* C11: with DATABASE_URL absent every operation returns without raising
\* and without calling for a connection: guardar_quiniela gives None,
\* obtener_quinielas [], obtener_quiniela_por_id None, eliminar_quiniela
\* False, obtener_estadisticas total 0 and no dates; the server is left as
\* it was.
C11_SinCadenaDeConexion ==
    (Construido /\ db.database_url = NoneValue) =>
        /\ llamada.fin = "return"
        /\ ~llamada.conecta
        /\ abiertas = 0
        /\ servidor \in ServidoresIniciales
        /\ llamada.op = "guardar_quiniela" => retorno = NoneValue
        /\ llamada.op = "obtener_quinielas" => retorno = <<>>
        /\ llamada.op = "obtener_quiniela_por_id" => retorno = NoneValue
        /\ llamada.op = "eliminar_quiniela" => retorno = FALSE
        /\ llamada.op = "obtener_estadisticas" =>
            /\ retorno.total_quinielas = 0
            /\ retorno.primera_quiniela = NoneValue
            /\ retorno.ultima_quiniela = NoneValue

\* A slip was handed to guardar_quiniela with no connection string.
C11_Testigo ==
    /\ Construido
    /\ db.database_url = NoneValue
    /\ llamada.op = "guardar_quiniela"
    /\ Len(llamada.arg) = 2

\* Whether the last operation met a failure inside: a connection refused,
\* a statement raising (also on a missing table or a negative LIMIT) or a
\* commit raising.
FalloDentro ==
    /\ Construido
    /\ db.db_available
    /\ \/ llamada.falla \in {"connect", "execute"}
       \/ /\ llamada.falla = "commit"
          /\ llamada.op \in {"__init__", "guardar_quiniela",
                             "eliminar_quiniela"}
       \/ ~servidor.existe
       \/ llamada.op = "obtener_quinielas" /\ llamada.arg < 0

\* C12: no operation raises; one that met a failure inside returns None
\* (guardar_quiniela, obtener_quiniela_por_id), [] (obtener_quinielas),
\* False (eliminar_quiniela) or zero totals (obtener_estadisticas), and the
\* constructor returns the object when the table initialisation fails.
C12_FallasNoSeLanzan ==
    /\ llamada.fin = "return"
    /\ FalloDentro =>
        /\ llamada.op = "guardar_quiniela" => retorno = NoneValue
        /\ llamada.op = "obtener_quiniela_por_id" => retorno = NoneValue
        /\ llamada.op = "obtener_quinielas" => retorno = <<>>
        /\ llamada.op = "eliminar_quiniela" => retorno = FALSE
        /\ llamada.op = "obtener_estadisticas" =>
            retorno = EstadisticasVacias
        /\ llamada.op = "__init__" => retorno = db

\* The commit of a deletion of a stored slip raised.
C12_Testigo ==
    /\ llamada.op = "eliminar_quiniela"
    /\ llamada.falla = "commit"
    /\ llamada.arg \in Ids(servidor.filas)
    /\ retorno = FALSE

\* C13, in a state: a deletion that succeeded leaves no row of that id; a
\* lookup of an id with no row gives None, and one of a stored id, when
\* nothing fails, gives its row; a listing holds only stored rows.
C13_SinLaEliminada ==
    Construido =>
        /\ (llamada.op = "eliminar_quiniela" /\ retorno = TRUE) =>
            llamada.arg \notin Ids(servidor.filas)
        /\ (llamada.op = "obtener_quiniela_por_id"
            /\ llamada.arg \notin Ids(servidor.filas)) =>
                retorno = NoneValue
        /\ (llamada.op = "obtener_quiniela_por_id"
            /\ llamada.arg \in Ids(servidor.filas)
            /\ ~FalloDentro) =>
                /\ retorno # NoneValue
                /\ retorno.id = llamada.arg
        /\ llamada.op = "obtener_quinielas" =>
            \A i \in 1..Len(retorno) :
                retorno[i].id \in Ids(servidor.filas)

\* C13, in a step: an id that was given out and has no row never has one
\* again, and a deletion that succeeds removes the rows of its id and no
\* other.
C13_PasoDeEliminar ==
    Construido =>
        /\ \A id \in 1..servidor.sec :
            id \notin Ids(servidor.filas) => id \notin Ids(servidor'.filas)
        /\ (llamada'.op = "eliminar_quiniela" /\ retorno' = TRUE) =>
                servidor'.filas =
                    {r \in servidor.filas : r.id # llamada'.arg}

\* C13: once a saved slip has been deleted with success,
\* obtener_quiniela_por_id of its id returns None and no later listing
\* holds a record of that id, while the other stored slips stay
\* retrievable.
C13_EliminadaNoVuelve == []C13_SinLaEliminada /\ [][C13_PasoDeEliminar]_vars

\* Slip 1 was saved and deleted, slip 2 is stored, and slip 1 is looked up.
C13_Testigo ==
    /\ Construido
    /\ llamada.op = "obtener_quiniela_por_id"
    /\ llamada.arg = 1
    /\ llamada.falla = "ninguna"
    /\ retorno = NoneValue
    /\ Ids(servidor.filas) = {2}

\* C14: eliminar_quiniela of an id that has no row (never saved, or deleted
\* before) returns False without raising and leaves the server as it was;
\* so a second deletion of an id, right after one that returned True,
\* returns False and changes nothing.
C14_PasoSinFila ==
    (Construido /\ llamada'.op = "eliminar_quiniela"
     /\ llamada'.arg \notin Ids(servidor.filas)) =>
        /\ llamada'.fin = "return"
        /\ retorno' = FALSE
        /\ servidor' = servidor

C14_EliminarDosVeces == [][C14_PasoSinFila]_vars

\* A deletion that returned True, of an id that another slip outlives, and
\* the same deletion again with nothing failing.
C14_Testigo ==
    /\ Construido
    /\ llamada.op = "eliminar_quiniela"
    /\ llamada.falla = "ninguna"
    /\ llamada.arg = 1
    /\ retorno = FALSE
    /\ Ids(servidor.filas) = {2}

\* C20: no connection an operation acquired is still open after it
\* returned, whether it succeeded or failed.
C20_NingunaAbierta == abiertas = 0

(***************************************************************************)
(* get_info_sorteo as a state machine: the site answers the fetch in some  *)
(* fixed way on some day, and get_info_sorteo is called once.              *)
(***************************************************************************)

\* What each regex may find: nothing, or two matches.
HallazgosPosibles ==
    [premio_pesos : {<<>>, <<"$ 5,000", "$ 1">>},
     premio_millones : {<<>>, <<"12 millones", "3 mil">>},
     premio_palabra : {<<>>, <<"premio de 7", "premio 8">>},
     fecha_larga : {<<>>, <<"5 de mayo de 2025", "6 de mayo de 2025">>},
     fecha_barras : {<<>>, <<"4/5/2025", "11/5/2025">>},
     fecha_de_sorteo : {<<>>, <<"4 mayo", "11 mayo">>},
     jornada_num : {<<>>, <<"17", "18">>},
     concurso_num : {<<>>, <<"2281", "2282">>},
     sorteo_num : {<<>>, <<"2345", "2346">>},
     numero_de_sorteo : {<<>>, <<"2350", "2351">>}]

PaginasDeInfo ==
    {[tipo |-> "error"]} \cup [tipo : {"ok"}, hallazgos : HallazgosPosibles]

\* The days of one week, Monday to Sunday.
Dias == 0..6

InitInfo ==
    /\ sitio \in [pagina : PaginasDeInfo, hoy : Dias]
    /\ scraper = PrognolScraper_init
    /\ llamada = [op |-> "ninguna", fin |-> "return"]
    /\ retorno = NoneValue
    /\ partidos = <<>>
    /\ azar = <<>>
    /\ intentos = <<>>
    /\ db = NoneValue
    /\ servidor = NoneValue
    /\ abiertas = 0
    /\ sesion = NoneValue

LlamarGetInfoSorteo ==
    LET r == get_info_sorteo(scraper, sitio.pagina, sitio.hoy)
    IN  /\ llamada.op = "ninguna"
        /\ llamada' = [op |-> "get_info_sorteo", fin |-> r.fin]
        /\ retorno' = r.ret
        /\ scraper' = r.obj
        /\ UNCHANGED <<partidos, azar, sitio, intentos, dbVars, sesion>>

NextInfo == LlamarGetInfoSorteo

SpecInfo == InitInfo /\ [][NextInfo]_vars

(***************************************************************************)
(* Properties of get_info_sorteo, checked under SpecInfo.                  *)
(***************************************************************************)

\* The Sunday after a day: the Sunday among the seven days that follow it.
DomingoSiguiente(hoy) == CHOOSE d \in (hoy + 1)..(hoy + 7) : d % 7 = 6

MatchesDe(hallazgo) == {hallazgo[k] : k \in 1..Len(hallazgo)}

\* C16: get_info_sorteo never raises and returns premios, fecha_sorteo,
\* jornada and numero_sorteo: all four defaults when the fetch fails, and
\* when it succeeds every field none of whose patterns matches has its own
\* fallback (next Sunday for the date), while a field with a match carries
\* a match, whatever the other fields do.
C16_InfoConRespaldo ==
    llamada.op = "get_info_sorteo" =>
        /\ llamada.fin = "return"
        /\ DOMAIN retorno =
                {"premios", "fecha_sorteo", "jornada", "numero_sorteo"}
        /\ sitio.pagina.tipo = "error" =>
            /\ retorno.premios =
                    "Premio acumulado - Consultar pagina oficial"
            /\ retorno.fecha_sorteo =
                    "Proximo sorteo: " \o ToString(DomingoSiguiente(sitio.hoy))
            /\ retorno.jornada = "Jornada actual"
            /\ retorno.numero_sorteo = "N/A"
        /\ sitio.pagina.tipo = "ok" =>
            LET h == sitio.pagina.hallazgos
                dePremios == MatchesDe(h.premio_pesos)
                    \cup MatchesDe(h.premio_millones)
                    \cup MatchesDe(h.premio_palabra)
                deFecha == MatchesDe(h.fecha_larga)
                    \cup MatchesDe(h.fecha_barras)
                    \cup MatchesDe(h.fecha_de_sorteo)
                deJornada == MatchesDe(h.jornada_num)
                    \cup MatchesDe(h.concurso_num)
                    \cup MatchesDe(h.sorteo_num)
                deNumero == MatchesDe(h.sorteo_num)
                    \cup MatchesDe(h.numero_de_sorteo)
            IN  /\ retorno.premios \in
                    IF dePremios = {}
                    THEN {"Premio: Consultar pagina oficial"}
                    ELSE {"Premio estimado: " \o m : m \in dePremios}
                /\ retorno.fecha_sorteo \in
                    IF deFecha = {}
                    THEN {"Proximo sorteo: "
                            \o ToString(DomingoSiguiente(sitio.hoy))}
                    ELSE deFecha
                /\ retorno.jornada \in
                    IF deJornada = {} THEN {"Jornada actual"}
                    ELSE {"Jornada " \o m : m \in deJornada}
                /\ retorno.numero_sorteo \in
                    IF deNumero = {} THEN {"N/A"} ELSE deNumero

\* The fetch succeeded on a Sunday; only the draw number is on the page.
C16_Testigo ==
    /\ llamada.op = "get_info_sorteo"
    /\ sitio.pagina.tipo = "ok"
    /\ sitio.hoy = 6
    /\ retorno.premios = "Premio: Consultar pagina oficial"
    /\ retorno.fecha_sorteo = "Proximo sorteo: 13"
    /\ retorno.jornada = "Jornada 2345"
    /\ retorno.numero_sorteo = "2345"

(***************************************************************************)
(* Properties of the order of the strategies and of the structured         *)
(* extraction, checked under SpecScraper.                                  *)
(***************************************************************************)

\* Whether a captured pair is valid: both trimmed names longer than 2
\* characters and different.
ParValido(captura) ==
    /\ Len(Strip(captura[1])) > 2
    /\ Len(Strip(captura[2])) > 2
    /\ Strip(captura[1]) # Strip(captura[2])

\* The captures of a pattern group, in scan order.
CapturasDe(grupo) == Concatenar(grupo)

\* The matches a list of captures gives: the valid ones, trimmed, in order.
RECURSIVE ValidosDe(_)
ValidosDe(capturas) ==
    IF capturas = <<>> THEN <<>>
    ELSE (IF ParValido(Head(capturas))
          THEN << [local     |-> Strip(Head(capturas)[1]),
                   visitante |-> Strip(Head(capturas)[2]),
                   fecha     |-> "Proxima jornada"] >>
          ELSE <<>>) \o ValidosDe(Tail(capturas))

Primeros(lista, n) == SubSeq(lista, 1, Min(Len(lista), n))

\* What the plain-text strategy finds: the valid pairs of the lines.
ValidosDelTexto ==
    IF sitio.descarga.tipo = "texto"
    THEN Primeros(ValidosDe(Concatenar(sitio.descarga.lineas)), 14)
    ELSE <<>>

\* What the structured strategy returned, read off the strategies run and
\* the list returned.
DevueltoPorRequests ==
    IF intentos = <<"requests">> THEN retorno ELSE <<>>

\* C17: get_partidos runs the structured strategy first; the plain-text
\* strategy runs only if the structured one returned [], and its result is
\* returned if not empty; the synthetic generator runs only if both
\* returned [].
C17_OrdenDeEstrategias ==
    GetPartidosLlamado =>
        /\ intentos \in {<<"requests">>, <<"requests", "trafilatura">>,
                         <<"requests", "trafilatura", "sample">>}
        /\ intentos = <<"requests">> => retorno # <<>>
        /\ intentos = <<"requests", "trafilatura">> =>
            /\ retorno # <<>>
            /\ retorno = ValidosDelTexto
        /\ intentos = <<"requests", "trafilatura", "sample">> =>
            /\ ValidosDelTexto = <<>>
            /\ Len(retorno) = 14
        /\ (sitio.respuesta.tipo = "ok"
            /\ ValidosDe(CapturasDe(sitio.respuesta.tablas)) # <<>>) =>
                intentos = <<"requests">>

\* The structured strategy found nothing on a page, and the plain-text one
\* found matches.
C17_Testigo ==
    /\ GetPartidosLlamado
    /\ sitio.respuesta.tipo = "ok"
    /\ intentos = <<"requests", "trafilatura">>
    /\ Len(retorno) = 14

\* The candidate groups of the page, in priority order.
GruposDeLaPagina ==
    <<sitio.respuesta.tablas, sitio.respuesta.divs, sitio.respuesta.textos>>

\* The groups that hold at least one valid pair.
GruposConValidos ==
    {g \in 1..3 : ValidosDe(CapturasDe(GruposDeLaPagina[g])) # <<>>}

\* C18: the groups are scanned tables, class-matched elements, free text,
\* and the scan stops at the first group with at least one valid pair: the
\* structured result is made of that group's valid pairs, also when an
\* earlier group holds captures that are all invalid, and is empty only if
\* no group has a valid pair.
C18_PrimerGrupoConValidos ==
    (GetPartidosLlamado /\ sitio.respuesta.tipo = "ok") =>
        IF GruposConValidos = {}
        THEN DevueltoPorRequests = <<>>
        ELSE LET g == CHOOSE g \in GruposConValidos :
                        \A o \in GruposConValidos : g <= o
             IN  DevueltoPorRequests =
                    Primeros(ValidosDe(CapturasDe(GruposDeLaPagina[g])), 14)

\* C19: the structured result is the first, at most 14, valid captured
\* pairs of a group in scan order, and no (local, visitante) pair is in it
\* twice.
C19_SinParesRepetidos ==
    (GetPartidosLlamado /\ intentos = <<"requests">>) =>
        /\ \E g \in 1..3 :
            retorno =
                Primeros(ValidosDe(CapturasDe(GruposDeLaPagina[g])), 14)
        /\ \A i, j \in 1..Len(retorno) :
            (retorno[i].local = retorno[j].local
             /\ retorno[i].visitante = retorno[j].visitante) => i = j

(***************************************************************************)
(* app.py.  One run of the script is one step: Streamlit runs the script   *)
(* from the top on every user event, with st.session_state kept between   *)
(* runs.  A run threads a context [ses, db, scr, srv, dejadas, n,          *)
(* llamadas, mensajes, intentos, mostradas, fin]: the session state, the   *)
(* store and scraper objects, the server, the connections left open, the   *)
(* number of store calls made, the methods of the collaborators called in  *)
(* order, the messages of st.success, st.warning and st.error, the         *)
(* strategies get_partidos ran, the ids of the stored slips shown with a   *)
(* delete button, and how the run ended ("return", or "rerun" when         *)
(* st.rerun() stopped it).  The n-th store call of a run fails where the   *)
(* n-th value of the run's tape of failures says.                          *)
(***************************************************************************)

\* lines 19-26: the session state of a new session
SesionNueva ==
    [partidos |-> <<>>, quinielas |-> <<>>, vista_actual |-> "generar",
     info_sorteo |-> NoneValue]

\* the options of the selectbox of the number of slips
OpcionesNumQuinielas == {1, 5, 10}

\* `valor`, computed once, handed to what follows it
Sea(valor, Resto(_)) == CHOOSE y \in {Resto(x) : x \in {valor}} : TRUE

Anotar(ctx, nombre) == [ctx EXCEPT !.llamadas = Append(@, nombre)]

Mensaje(ctx, texto) == [ctx EXCEPT !.mensajes = Append(@, texto)]

\* the place where the next store call of the run fails
FallaSiguiente(ctx, fallas) == Sorteo(fallas, ctx.n)

\* the context after a store call with result r
TrasLlamadaDb(ctx, nombre, r) ==
    IF r.conecta
    THEN [Anotar(ctx, nombre) EXCEPT !.srv = r.servidor,
                                     !.dejadas = @ + r.dejadas,
                                     !.n = @ + 1]
    ELSE Anotar(ctx, nombre)

\* lines 18-26: the objects and the session state, on the first run
IniciarSesion(ctx, url, fallas) ==
    IF ctx.ses # NoneValue THEN ctx
    ELSE Sea(QuinielaDatabase(url, ctx.srv, FallaSiguiente(ctx, fallas)),
             LAMBDA r :
                IF r.conecta
                THEN [ctx EXCEPT !.ses = SesionNueva, !.db = r.ret,
                                 !.scr = PrognolScraper_init,
                                 !.llamadas = Append(@, "_init_database"),
                                 !.srv = r.servidor,
                                 !.dejadas = @ + r.dejadas,
                                 !.n = @ + 1]
                ELSE [ctx EXCEPT !.ses = SesionNueva, !.db = r.ret,
                                 !.scr = PrognolScraper_init])

\* lines 29-30: the draw information, fetched while it is None
ObtenerInfoSorteo(ctx, sit) ==
    IF ctx.ses.info_sorteo # NoneValue THEN ctx
    ELSE Sea(get_info_sorteo(ctx.scr, sit.pagina, sit.hoy),
             LAMBDA r :
                [ctx EXCEPT !.llamadas = Append(@, "get_info_sorteo"),
                            !.ses.info_sorteo = r.ret, !.scr = r.obj])

\* lines 53-59: the radio sets vista_actual
ElegirVista(ctx, evento) ==
    IF evento.tipo = "vista"
    THEN [ctx EXCEPT !.ses.vista_actual = evento.vista]
    ELSE ctx

\* lines 65-75: the button that refreshes the matches
ActualizarPartidos(ctx, sit, cinta) ==
    Sea(get_partidos(sit, cinta),
        LAMBDA r :
          Sea([ctx EXCEPT !.llamadas = Append(@, "get_partidos"),
                          !.intentos = r.intentos],
              LAMBDA c :
                IF r.fin = "raise"
                THEN Mensaje(c, "error: Error al obtener partidos")
                ELSE IF r.ret # <<>>
                THEN Mensaje([c EXCEPT !.ses.partidos = r.ret],
                             "success: partidos obtenidos")
                ELSE Mensaje(c, "error: No se pudieron obtener partidos")))

\* the tape as a call finds it after k draws of earlier calls
Rotar(cinta, k) ==
    [i \in 1..Len(cinta) |-> cinta[((i - 1 + k) % Len(cinta)) + 1]]

\* lines 105-110: one biased slip per requested slip
QuinielasInteligentes(lista, num, cinta) ==
    [k \in 1..num |->
        generar_quiniela_con_tendencia(
            lista, "local",
            Rotar(cinta, (k - 1) * Min(Len(lista), MaxPartidos)))]

\* lines 115-118: the slips from slip i on are saved; guardar_quiniela
\* gives an id, which is true, exactly when it adds the row
RECURSIVE GuardarTodas(_, _, _, _, _)
GuardarTodas(ctx, quinielas, i, guardadas, fallas) ==
    IF i > Len(quinielas) THEN [ctx |-> ctx, guardadas |-> guardadas]
    ELSE Sea(guardar_quiniela(ctx.db, ctx.srv, quinielas[i],
                              FallaSiguiente(ctx, fallas)),
             LAMBDA r :
               Sea([c |-> TrasLlamadaDb(ctx, "guardar_quiniela", r),
                    g |-> IF r.servidor.filas # ctx.srv.filas
                          THEN guardadas + 1 ELSE guardadas],
                   LAMBDA s :
                     GuardarTodas(s.c, quinielas, i + 1, s.g, fallas)))

\* the calls of the generator: one of generar_quinielas, or one of
\* generar_quiniela_con_tendencia per requested slip
AnotarGeneracion(ctx, evento) ==
    IF evento.modo = "Aleatorio" THEN Anotar(ctx, "generar_quinielas")
    ELSE [ctx EXCEPT !.llamadas =
            @ \o [k \in 1..evento.num |-> "generar_quiniela_con_tendencia"]]

\* lines 98-125: the slips are generated, kept in the session and saved
GenerarYGuardar(ctx, evento, fallas) ==
    Sea(IF evento.modo = "Aleatorio"
        THEN generar_quinielas(ctx.ses.partidos, evento.num, evento.cinta)
        ELSE QuinielasInteligentes(ctx.ses.partidos, evento.num,
                                   evento.cinta),
        LAMBDA quinielas :
          Sea([AnotarGeneracion(ctx, evento)
                    EXCEPT !.ses.quinielas = quinielas],
              LAMBDA c :
                Sea(GuardarTodas(c, quinielas, 1, 0, fallas),
                    LAMBDA g :
                      IF g.guardadas = evento.num
                      THEN Mensaje(g.ctx, "success: generadas y guardadas")
                      ELSE IF g.guardadas > 0
                      THEN Mensaje(
                            g.ctx,
                            "warning: generadas, pero solo algunas guardadas")
                      ELSE Mensaje(
                            g.ctx,
                            "error: generadas, pero no se pudieron guardar"))))

\* lines 94-125 without the test of the match list
GenerarQuinielas_sin_prueba(ctx, evento, fallas) ==
    GenerarYGuardar(ctx, evento, fallas)

\* lines 94-125: the button that generates the slips
GenerarQuinielas(ctx, evento, fallas) ==
    IF ctx.ses.partidos = <<>>
    THEN Mensaje(ctx, "error: Primero actualiza los partidos")
    ELSE GenerarYGuardar(ctx, evento, fallas)

\* lines 129-133: the sidebar of the history view
BarraDeHistorial(ctx, evento, fallas) ==
    Sea(obtener_estadisticas(ctx.db, ctx.srv, FallaSiguiente(ctx, fallas)),
        LAMBDA r :
          IF evento.tipo = "actualizar_historial"
          THEN [TrasLlamadaDb(ctx, "obtener_estadisticas", r)
                    EXCEPT !.fin = "rerun"]
          ELSE TrasLlamadaDb(ctx, "obtener_estadisticas", r))

\* lines 48-133: the sidebar
BarraLateral(ctx, sit, evento, fallas) ==
    IF ctx.ses.vista_actual = "generar"
    THEN IF evento.tipo = "actualizar_partidos"
         THEN ActualizarPartidos(ctx, sit, evento.cinta)
         ELSE IF evento.tipo = "generar"
         THEN GenerarQuinielas(ctx, evento, fallas)
         ELSE ctx
    ELSE BarraDeHistorial(ctx, evento, fallas)

\* lines 160-208: one image per slip of the session
MostrarQuinielas(ctx) ==
    [ctx EXCEPT !.llamadas =
        @ \o [k \in 1..Len(ctx.ses.quinielas) |-> "generar_imagen"]]

\* lines 219-257: the stored slips from slip i of the listing on, with the
\* button that deletes one
RECURSIVE MostrarGuardadas(_, _, _, _, _)
MostrarGuardadas(ctx, guardadas, i, evento, fallas) ==
    IF i > Len(guardadas) THEN ctx
    ELSE Sea([ctx EXCEPT !.llamadas = Append(@, "generar_imagen"),
                         !.mostradas = Append(@, guardadas[i].id)],
             LAMBDA c :
               IF evento.tipo = "eliminar" /\ evento.id = guardadas[i].id
               THEN Sea(eliminar_quiniela(c.db, c.srv, guardadas[i].id,
                                          FallaSiguiente(c, fallas)),
                        LAMBDA r :
                          Sea(TrasLlamadaDb(c, "eliminar_quiniela", r),
                              LAMBDA d :
                                IF r.ret
                                THEN [Mensaje(d, "success: Quiniela eliminada")
                                        EXCEPT !.fin = "rerun"]
                                ELSE MostrarGuardadas(
                                        Mensaje(d, "error: Error al eliminar"),
                                        guardadas, i + 1, evento, fallas)))
               ELSE MostrarGuardadas(c, guardadas, i + 1, evento, fallas))

\* lines 212-259: the history view
VistaDeHistorial(ctx, evento, fallas) ==
    Sea(obtener_quinielas(ctx.db, ctx.srv, 50, FallaSiguiente(ctx, fallas)),
        LAMBDA r :
          Sea(TrasLlamadaDb(ctx, "obtener_quinielas", r),
              LAMBDA c : MostrarGuardadas(c, r.ret, 1, evento, fallas)))

\* lines 135-259: the main content
ContenidoPrincipal(ctx, evento, fallas) ==
    IF ctx.fin = "rerun" THEN ctx
    ELSE IF ctx.ses.vista_actual = "generar" THEN MostrarQuinielas(ctx)
    ELSE VistaDeHistorial(ctx, evento, fallas)

\* one run of the script on an event: each section starts from the context
\* the section before it left
EjecutarScript(ctx, sit, url, evento, fallas) ==
    Sea(IniciarSesion(ctx, url, fallas),
        LAMBDA c1 :
          Sea(ObtenerInfoSorteo(c1, sit),
              LAMBDA c2 :
                Sea(BarraLateral(ElegirVista(c2, evento), sit, evento,
                                 fallas),
                    LAMBDA c3 : ContenidoPrincipal(c3, evento, fallas))))

SinEvento == [tipo |-> "ninguno"]

\* a run, and the run st.rerun() starts when it stops the first
EjecutarConRerun(ctx, sit, url, evento, fallas) ==
    Sea(EjecutarScript(ctx, sit, url, evento, fallas),
        LAMBDA c :
          IF c.fin = "rerun"
          THEN Sea([c EXCEPT !.fin = "return", !.mostradas = <<>>],
                   LAMBDA d : EjecutarScript(d, sit, url, SinEvento, fallas))
          ELSE c)

(***************************************************************************)
(* The interactive shell as a state machine: a session is opened, and the  *)
(* user then changes the view or presses one of the buttons the last run   *)
(* showed; every event is one run of the script.                           *)
(***************************************************************************)

MaxSecuencia == 1      \* slips are generated while fewer ids were given out

\* What the site answers and what the environment holds.
EntornosDeLaApp ==
    [respuesta : {[tipo |-> "error"],
                  [tipo |-> "ok", tablas |-> << <<CapValida, CapValida2>> >>,
                   divs |-> <<>>, textos |-> <<>>]},
     descarga : {[tipo |-> "none"]},
     pagina : {[tipo |-> "error"],
               [tipo |-> "ok",
                hallazgos |-> [premio_pesos |-> <<>>, premio_millones |-> <<>>,
                               premio_palabra |-> <<>>, fecha_larga |-> <<>>,
                               fecha_barras |-> <<>>,
                               fecha_de_sorteo |-> <<>>,
                               jornada_num |-> <<"17">>,
                               concurso_num |-> <<>>, sorteo_num |-> <<>>,
                               numero_de_sorteo |-> <<>>]]},
     hoy : {6},
     url : {NoneValue, [url |-> DATABASE_URL]}]

\* Tapes of the failures of a run's store calls: none fails, each fails at
\* its first statement, or every second one does.
CintasDeFallas == {<<"ninguna">>, <<"execute">>, <<"ninguna", "execute">>}

\* Tapes of the random draws of a run: indices for random.choice, hundredths
\* for random.random, indices for the draws of the synthetic generator.
CintasDeLaApp(evento) ==
    IF evento.tipo = "actualizar_partidos"
    THEN (IF LlegaALaMuestra(sitio) THEN {<<1, 0>>} ELSE {<<>>})
    ELSE IF evento.modo = "Aleatorio" THEN {<<1, 2>>}
    ELSE {<<25, 99>>}

InitApp ==
    /\ sesion = NoneValue
    /\ db = NoneValue
    /\ scraper = NoneValue
    /\ sitio \in EntornosDeLaApp
    /\ servidor \in ServidoresIniciales
    /\ abiertas = 0
    /\ llamada = [op |-> "ninguna", fin |-> "return"]
    /\ retorno = NoneValue
    /\ partidos = <<>>
    /\ azar = <<>>
    /\ intentos = <<>>

\* the context a run starts with
ContextoInicial ==
    [ses |-> sesion, db |-> db, scr |-> scraper, srv |-> servidor,
     dejadas |-> 0, n |-> 0, llamadas |-> <<>>, mensajes |-> <<>>,
     intentos |-> <<>>, mostradas |-> <<>>, fin |-> "return"]

\* One run of the script on an event, with a tape of random draws and a
\* tape of failures.
Run(evento, fallas) ==
    \E c \in {EjecutarConRerun(ContextoInicial, sitio, sitio.url, evento,
                                fallas)} :
        /\ abiertas + c.dejadas <= MaxAbiertas
        /\ sesion' = c.ses
        /\ db' = c.db
        /\ scraper' = c.scr
        /\ servidor' = c.srv
        /\ abiertas' = abiertas + c.dejadas
        /\ llamada' = [op |-> "run", evento |-> evento, fallas |-> fallas,
                       fin |-> c.fin, llamadas |-> c.llamadas,
                       mensajes |-> c.mensajes]
        /\ retorno' = [mostradas |-> c.mostradas]
        /\ intentos' = c.intentos
        /\ azar' = IF "cinta" \in DOMAIN evento THEN evento.cinta ELSE <<>>
        /\ UNCHANGED <<partidos, sitio>>

AbrirSesion ==
    \E fallas \in CintasDeFallas :
        /\ sesion = NoneValue
        /\ Run(SinEvento, fallas)

CambiarVista ==
    \E vista \in {"generar", "historial"}, fallas \in CintasDeFallas :
        /\ sesion # NoneValue
        /\ vista # sesion.vista_actual
        /\ Run([tipo |-> "vista", vista |-> vista], fallas)

PulsarActualizarPartidos ==
    \E cinta \in CintasDeLaApp([tipo |-> "actualizar_partidos"]) :
        /\ sesion # NoneValue
        /\ sesion.vista_actual = "generar"
        /\ Run([tipo |-> "actualizar_partidos", cinta |-> cinta], <<"ninguna">>)

PulsarGenerar ==
    \E num \in OpcionesNumQuinielas, modo \in {"Aleatorio", "Inteligente"},
       fallas \in CintasDeFallas :
      \E cinta \in CintasDeLaApp([tipo |-> "generar", modo |-> modo]) :
        /\ sesion # NoneValue
        /\ sesion.vista_actual = "generar"
        /\ servidor.sec < MaxSecuencia
        /\ Run([tipo |-> "generar", num |-> num, modo |-> modo,
                cinta |-> cinta], fallas)

PulsarActualizarHistorial ==
    \E fallas \in CintasDeFallas :
        /\ sesion # NoneValue
        /\ sesion.vista_actual = "historial"
        /\ Run([tipo |-> "actualizar_historial"], fallas)

\* The delete button of the first stored slip shown.
PulsarEliminar ==
    \E fallas \in CintasDeFallas :
        /\ sesion # NoneValue
        /\ sesion.vista_actual = "historial"
        /\ retorno.mostradas # <<>>
        /\ Run([tipo |-> "eliminar", id |-> retorno.mostradas[1]], fallas)

NextApp ==
    \/ AbrirSesion
    \/ CambiarVista
    \/ PulsarActualizarPartidos
    \/ PulsarGenerar
    \/ PulsarActualizarHistorial
    \/ PulsarEliminar

SpecApp == InitApp /\ [][NextApp]_vars

(***************************************************************************)
(* Generating with no matches loaded                                       *)
(***************************************************************************)

\* The methods of the generator and the method of the store that saves.
MetodosDeGenerarYGuardar ==
    {"generar_quinielas", "generar_quiniela_con_tendencia",
     "guardar_quiniela"}

C15_PasoSinPartidos ==
    (/\ llamada'.op = "run"
     /\ llamada'.evento.tipo = "generar"
     /\ sesion # NoneValue
     /\ sesion.partidos = <<>>)
    => /\ llamada'.fin = "return"
       /\ llamada'.mensajes = <<"error: Primero actualiza los partidos">>
       /\ \A k \in 1..Len(llamada'.llamadas) :
            llamada'.llamadas[k] \notin MetodosDeGenerarYGuardar
       /\ servidor'.filas = servidor.filas
       /\ sesion'.quinielas = sesion.quinielas
       /\ sesion'.partidos = <<>>

\* C15: a run of the script on the generate button, in a session whose match
\* list is empty, ends normally with the one message that asks to refresh
\* the matches first: it calls neither method of the generator nor the save
\* of the store, the stored rows are the same after it, and so are the
\* session's slips.
C15_GenerarSinPartidos == [][C15_PasoSinPartidos]_vars

\* The generate button was pressed in a session with no matches, in either
\* mode, and the run showed the error.
C15_Testigo ==
    /\ llamada.op = "run"
    /\ llamada.evento.tipo = "generar"
    /\ llamada.evento.modo = "Inteligente"
    /\ llamada.evento.num = 10
    /\ sesion.partidos = <<>>
    /\ llamada.mensajes = <<"error: Primero actualiza los partidos">>

(***************************************************************************)
(* The synthetic generator never reuses a name                             *)
(***************************************************************************)

\* The names in the first k pairs of a list of matches.
NombresDe(lista, k) ==
    {lista[i].local : i \in 1..k} \cup {lista[i].visitante : i \in 1..k}

\* C21: when get_partidos ran _generate_sample_partidos, the 14 pairs it
\* returned hold 28 pairwise different names; the pairs before each slot
\* hold two names each, all different, so that at least 2 of the 32 names
\* of the pool are unused when the slot starts; the used-set was never
\* cleared and the pool list still holds its 32 names when the loop ends.
C21_SinNombresRepetidos ==
    (GetPartidosLlamado /\ \E k \in 1..Len(intentos) : intentos[k] = "sample")
    =>  /\ llamada.fin = "return"
        /\ Len(retorno) = 14
        /\ Cardinality(NombresDe(retorno, 14)) = 28
        /\ \A i \in 0..13 :
            /\ Cardinality(NombresDe(retorno, i)) = 2 * i
            /\ Len(todos_los_equipos) - 2 * i >= 2
        /\ EstadoFinalDeMuestra(azar, 0).partidos = retorno
        /\ EstadoFinalDeMuestra(azar, 0).reinicios = 0
        /\ EstadoFinalDeMuestra(azar, 0).todos = todos_los_equipos
        /\ Len(EstadoFinalDeMuestra(azar, 0).todos) = 32

\* The synthetic generator ran, its draws alternating between the first and
\* the last free team.
C21_Testigo ==
    /\ GetPartidosLlamado
    /\ intentos = <<"requests", "trafilatura", "sample">>
    /\ azar = <<0, 31>>
    /\ Len(retorno) = 14
    /\ retorno[1].local = todos_los_equipos[1]

(***************************************************************************)
(* The draw information of a session                                       *)
(***************************************************************************)

\* How many times a run called a method.
VecesLlamado(llamadas, nombre) ==
    Cardinality({k \in 1..Len(llamadas) : llamadas[k] = nombre})

C22_InfoPresente == sesion # NoneValue => sesion.info_sorteo # NoneValue

C22_PasoDeInfo ==
    llamada'.op = "run" =>
        IF sesion = NoneValue
        THEN /\ VecesLlamado(llamada'.llamadas, "get_info_sorteo") = 1
             /\ sesion'.info_sorteo =
                    get_info_sorteo(PrognolScraper_init, sitio.pagina,
                                    sitio.hoy).ret
        ELSE /\ VecesLlamado(llamada'.llamadas, "get_info_sorteo") = 0
             /\ sesion'.info_sorteo = sesion.info_sorteo

\* C22: the first script run of a session calls get_info_sorteo once and
\* keeps what it returned, which is never None; every later run (a change
\* of view, a refresh of the matches or of the history, a generation, a
\* deletion) calls it no more and leaves the session's draw information as
\* it was, also when it holds the defaults of a failed fetch.
C22_InfoUnaSolaVez == []C22_InfoPresente /\ [][C22_PasoDeInfo]_vars

\* A stored slip was deleted in a session whose first run fell back to the
\* defaults: the run fetched nothing and the defaults are still there.
C22_Testigo ==
    /\ llamada.op = "run"
    /\ llamada.evento.tipo = "eliminar"
    /\ llamada.mensajes = <<"success: Quiniela eliminada">>
    /\ sitio.pagina.tipo = "error"
    /\ sesion.info_sorteo = _get_default_info(sitio.hoy)
    /\ VecesLlamado(llamada.llamadas, "get_info_sorteo") = 0

====
